---- MODULE Spec2Model ----
(***************************************************************************)
(* A state-machine model of xgen's schema parsing engine: Options.Parse,   *)
(* Options.GetValueType and the per-element handlers of the streaming      *)
(* walker, together with the shared maps (IncludeMap, LocalNameNSMap,      *)
(* NSSchemaLocationMap, ParseFileList, ParseFileMap) that parent and       *)
(* nested parsers hold by reference.                                       *)
(*                                                                         *)
(* Strings that the code splits on ":" (type references, names, builtin    *)
(* keys) are held as the sequence strings.Split(s, ":") returns, so        *)
(* "xs:string" is <<"xs","string">>, "string" is <<"string">> and "" is    *)
(* <<"">>.  File paths and schema locations are held as their sequence of  *)
(* path components, so "./a.xsd" is <<".","a.xsd">> and "" is << >>.       *)
(***************************************************************************)
EXTENDS Integers, Sequences, FiniteSets, TLC

VARIABLES cfg, stack, IncludeMap, LocalNameNSMap, NSSchemaLocationMap,
          ParseFileList, ParseFileMap, emitted, fullStarts, gvtLog,
          lastRet, status, firstRun, lifo, gens

vars == <<cfg, stack, IncludeMap, LocalNameNSMap, NSSchemaLocationMap,
          ParseFileList, ParseFileMap, emitted, fullStarts, gvtLog,
          lastRet, status, firstRun, lifo, gens>>

(***************************************************************************)
(* Bounds of the model.                                                    *)
(***************************************************************************)
\* the largest number of top-level declarations in the top-level document
MaxDecls == 2
\* the largest number of Push calls made on one Stack
MaxPushes == 4
\* the values pushed on a Stack are 0 (nil) to MaxValue
MaxValue == 2
\* the largest number of tokens read from a damaged file
MaxCut == 4

(***************************************************************************)
(* Strings                                                                 *)
(***************************************************************************)
\* a string without ":" as the code's Split sees it
N(s) == <<s>>
\* the string "p:s"
Q(p, s) == <<p, s>>
\* the empty string
EmptyStr == <<"">>

\* src/utils.go getNSPrefix: the part before ":" when there is exactly one
getNSPrefix(str) == IF Len(str) = 2 THEN str[1] ELSE ""

trimNSPrefix_NoStrip(str) == str

\* src/utils.go trimNSPrefix: the part after ":" when there is exactly one
trimNSPrefix(str) == IF Len(str) = 2 THEN <<str[2]>> ELSE str

(***************************************************************************)
(* The builtin datatype table                                              *)
(***************************************************************************)
BuildInTypeRows == {
    <<<<"anyType">>, <<<<"string">>, <<"string">>, <<"char">>, <<"String">>, <<"String">>>>>>,
    <<<<"ENTITIES">>, <<<<"[]string">>, <<"Array<string>">>, <<"char[]">>, <<"List<String>">>, <<"Vec<String>">>>>>>,
    <<<<"ENTITY">>, <<<<"string">>, <<"string">>, <<"char">>, <<"String">>, <<"String">>>>>>,
    <<<<"ID">>, <<<<"string">>, <<"string">>, <<"char">>, <<"String">>, <<"String">>>>>>,
    <<<<"IDREF">>, <<<<"string">>, <<"string">>, <<"char">>, <<"String">>, <<"String">>>>>>,
    <<<<"IDREFS">>, <<<<"[]string">>, <<"Array<string>">>, <<"char[]">>, <<"List<String>">>, <<"Vec<String>">>>>>>,
    <<<<"NCName">>, <<<<"string">>, <<"string">>, <<"char">>, <<"String">>, <<"String">>>>>>,
    <<<<"NMTOKEN">>, <<<<"string">>, <<"string">>, <<"char">>, <<"String">>, <<"String">>>>>>,
    <<<<"NMTOKENS">>, <<<<"[]string">>, <<"Array<string>">>, <<"char[]">>, <<"List<String>">>, <<"Vec<String>">>>>>>,
    <<<<"NOTATION">>, <<<<"[]string">>, <<"Array<string>">>, <<"char[]">>, <<"List<String>">>, <<"Vec<String>">>>>>>,
    <<<<"Name">>, <<<<"string">>, <<"string">>, <<"char">>, <<"String">>, <<"String">>>>>>,
    <<<<"QName">>, <<<<"xml.Name">>, <<"any">>, <<"char">>, <<"String">>, <<"String">>>>>>,
    <<<<"anyURI">>, <<<<"string">>, <<"string">>, <<"char">>, <<"QName">>, <<"String">>>>>>,
    <<<<"base64Binary">>, <<<<"[]byte">>, <<"Uint8Array">>, <<"char[]">>, <<"List<Byte>">>, <<"String">>>>>>,
    <<<<"boolean">>, <<<<"bool">>, <<"boolean">>, <<"bool">>, <<"Boolean">>, <<"bool">>>>>>,
    <<<<"byte">>, <<<<"byte">>, <<"any">>, <<"char[]">>, <<"Byte">>, <<"u8">>>>>>,
    <<<<"date">>, <<<<"time.Time">>, <<"string">>, <<"char">>, <<"Byte">>, <<"u8">>>>>>,
    <<<<"dateTime">>, <<<<"time.Time">>, <<"string">>, <<"char">>, <<"Byte">>, <<"u8">>>>>>,
    <<<<"decimal">>, <<<<"float64">>, <<"number">>, <<"float">>, <<"Float">>, <<"f64">>>>>>,
    <<<<"double">>, <<<<"float64">>, <<"number">>, <<"float">>, <<"Float">>, <<"f64">>>>>>,
    <<<<"duration">>, <<<<"string">>, <<"string">>, <<"char">>, <<"String">>, <<"String">>>>>>,
    <<<<"float">>, <<<<"float">>, <<"number">>, <<"float">>, <<"Float">>, <<"f64">>>>>>,
    <<<<"gDay">>, <<<<"time.Time">>, <<"string">>, <<"char">>, <<"String">>, <<"String">>>>>>,
    <<<<"gMonth">>, <<<<"time.Time">>, <<"string">>, <<"char">>, <<"String">>, <<"String">>>>>>,
    <<<<"gMonthDay">>, <<<<"time.Time">>, <<"string">>, <<"char">>, <<"String">>, <<"String">>>>>>,
    <<<<"gYear">>, <<<<"time.Time">>, <<"string">>, <<"char">>, <<"String">>, <<"String">>>>>>,
    <<<<"gYearMonth">>, <<<<"time.Time">>, <<"string">>, <<"char">>, <<"String">>, <<"String">>>>>>,
    <<<<"hexBinary">>, <<<<"[]byte">>, <<"Uint8Array">>, <<"char[]">>, <<"List<Byte>">>, <<"String">>>>>>,
    <<<<"int">>, <<<<"int">>, <<"number">>, <<"int">>, <<"Integer">>, <<"i32">>>>>>,
    <<<<"integer">>, <<<<"int">>, <<"number">>, <<"int">>, <<"Integer">>, <<"i32">>>>>>,
    <<<<"language">>, <<<<"string">>, <<"string">>, <<"char">>, <<"String">>, <<"String">>>>>>,
    <<<<"long">>, <<<<"int64">>, <<"number">>, <<"int">>, <<"Long">>, <<"i64">>>>>>,
    <<<<"negativeInteger">>, <<<<"int">>, <<"number">>, <<"int">>, <<"Integer">>, <<"i32">>>>>>,
    <<<<"nonNegativeInteger">>, <<<<"int">>, <<"number">>, <<"int">>, <<"Integer">>, <<"u32">>>>>>,
    <<<<"normalizedString">>, <<<<"string">>, <<"string">>, <<"char">>, <<"String">>, <<"String">>>>>>,
    <<<<"nonPositiveInteger">>, <<<<"int">>, <<"number">>, <<"int">>, <<"Integer">>, <<"i32">>>>>>,
    <<<<"positiveInteger">>, <<<<"int">>, <<"number">>, <<"int">>, <<"Integer">>, <<"u32">>>>>>,
    <<<<"short">>, <<<<"int16">>, <<"number">>, <<"int">>, <<"Integer">>, <<"i16">>>>>>,
    <<<<"string">>, <<<<"string">>, <<"string">>, <<"char">>, <<"String">>, <<"String">>>>>>,
    <<<<"time">>, <<<<"time.Time">>, <<"string">>, <<"char">>, <<"String">>, <<"String">>>>>>,
    <<<<"token">>, <<<<"string">>, <<"string">>, <<"char">>, <<"String">>, <<"String">>>>>>,
    <<<<"unsignedByte">>, <<<<"byte">>, <<"any">>, <<"char">>, <<"Byte">>, <<"u8">>>>>>,
    <<<<"unsignedInt">>, <<<<"uint32">>, <<"number">>, <<"unsigned int">>, <<"Integer">>, <<"u32">>>>>>,
    <<<<"unsignedLong">>, <<<<"uint64">>, <<"number">>, <<"unsigned int">>, <<"Long">>, <<"u64">>>>>>,
    <<<<"unsignedShort">>, <<<<"uint16">>, <<"number">>, <<"unsigned int">>, <<"Short">>, <<"u16">>>>>>,
    <<<<"xml", "lang">>, <<<<"string">>, <<"string">>, <<"char">>, <<"String">>, <<"String">>>>>>,
    <<<<"xml", "space">>, <<<<"string">>, <<"string">>, <<"char">>, <<"String">>, <<"String">>>>>>,
    <<<<"xml", "base">>, <<<<"string">>, <<"string">>, <<"char">>, <<"String">>, <<"String">>>>>>,
    <<<<"xml", "id">>, <<<<"string">>, <<"string">>, <<"char">>, <<"String">>, <<"String">>>>>>
}

\* src/utils.go BuildInTypes: XSD datatype -> {Go, TypeScript, C, Java, Rust}
BuildInTypes ==
    [k \in {r[1] : r \in BuildInTypeRows} |->
        (CHOOSE r \in BuildInTypeRows : r[1] = k)[2]]

\* src/utils.go supportLang, as an index into a row (an unknown language
\* reads the map's zero value and so takes the Go column)
supportLang(lang) ==
    CASE lang = "Go" -> 0
      [] lang = "TypeScript" -> 1
      [] lang = "C" -> 2
      [] lang = "Java" -> 3
      [] lang = "Rust" -> 4
      [] OTHER -> 0

getBuildInTypeByLang_GoOnly(value, lang) ==
    IF value \in DOMAIN BuildInTypes
    THEN [ok |-> TRUE, buildType |-> BuildInTypes[value][1]]
    ELSE [ok |-> FALSE, buildType |-> EmptyStr]

\* src/utils.go getBuildInTypeByLang
getBuildInTypeByLang(value, lang) ==
    IF value \in DOMAIN BuildInTypes
    THEN [ok |-> TRUE, buildType |-> BuildInTypes[value][supportLang(lang) + 1]]
    ELSE [ok |-> FALSE, buildType |-> EmptyStr]

(***************************************************************************)
(* Schema nodes                                                            *)
(***************************************************************************)
\* a nil interface value held in a slice or returned by Pop/Peek
NilNode == [kind |-> "nil"]

\* src/unnamed/part_017 SimpleType (Restriction holds Enum only: no handler
\* sets its other fields)
NewSimpleType ==
    [kind |-> "SimpleType", Doc |-> "", Name |-> EmptyStr, Base |-> EmptyStr,
     List |-> FALSE, Union |-> FALSE, MemberTypes |-> << >>, Enum |-> << >>]

\* src/unnamed/part_017 Element
NewElement ==
    [kind |-> "Element", Doc |-> "", Name |-> EmptyStr, Type |-> EmptyStr,
     Plural |-> FALSE]

\* src/unnamed/part_017 Attribute
NewAttribute ==
    [kind |-> "Attribute", Doc |-> "", Name |-> EmptyStr, Type |-> EmptyStr,
     Optional |-> FALSE]

\* src/unnamed/part_017 ComplexType
NewComplexType ==
    [kind |-> "ComplexType", Doc |-> "", Name |-> EmptyStr, Base |-> EmptyStr,
     Elements |-> << >>, Attributes |-> << >>, Groups |-> << >>,
     AttributeGroup |-> << >>]

\* src/unnamed/part_017 Group
NewGroup ==
    [kind |-> "Group", Doc |-> "", Name |-> EmptyStr, Elements |-> << >>,
     Groups |-> << >>, Plural |-> FALSE, Ref |-> EmptyStr]

\* src/unnamed/part_017 AttributeGroup
NewAttributeGroup ==
    [kind |-> "AttributeGroup", Doc |-> "", Name |-> EmptyStr,
     Ref |-> EmptyStr, Attributes |-> << >>]

\* the first index of XSDSchema whose node answers the lookup, 0 when none
RECURSIVE firstMatch(_, _, _)
firstMatch(name, XSDSchema, i) ==
    IF i > Len(XSDSchema) THEN 0
    ELSE LET v == XSDSchema[i] IN
         IF \/ (v.kind = "SimpleType" /\ ~v.List /\ ~v.Union /\ v.Name = name)
            \/ (v.kind = "Attribute" /\ v.Name = name)
            \/ (v.kind = "Element" /\ v.Name = name)
         THEN i
         ELSE firstMatch(name, XSDSchema, i + 1)

getBasefromSimpleType_NameOnly(name, XSDSchema) == name

\* src/utils.go getBasefromSimpleType
getBasefromSimpleType(name, XSDSchema) ==
    LET i == firstMatch(name, XSDSchema, 1) IN
    IF i = 0 THEN name
    ELSE IF XSDSchema[i].kind = "SimpleType" THEN XSDSchema[i].Base
    ELSE XSDSchema[i].Type

(***************************************************************************)
(* Paths                                                                   *)
(***************************************************************************)
\* filepath.Clean on the component sequence: "." components vanish, and an
\* empty result is "."
Clean(p) ==
    LET q == SelectSeq(p, LAMBDA c : c # ".") IN
    IF q = << >> THEN <<".">> ELSE q

\* filepath.Dir, used at src/parser.go:66
Dir(p) == IF Len(p) <= 1 THEN <<".">> ELSE Clean(SubSeq(p, 1, Len(p) - 1))

Join_Verbatim(dir, loc) == dir \o loc

\* filepath.Join, used at src/parser.go:173 and :184: the result is cleaned
Join(dir, loc) == Clean(dir \o loc)

\* src/utils.go isValidURL: parses as a request URI with a scheme and a host
isValidURL(toTest) ==
    /\ Len(toTest) >= 3
    /\ toTest[1] \in {"http:", "https:"}
    /\ toTest[2] = ""
    /\ toTest[3] # ""

\* a Go map read: the value held, or the zero value when the key is absent
MapGet(m, k, zero) == IF k \in DOMAIN m THEN m[k] ELSE zero

\* a Go map write
MapPut(m, k, v) == [x \in (DOMAIN m) \cup {k} |-> IF x = k THEN v ELSE m[x]]

(***************************************************************************)
(* Errors                                                                  *)
(***************************************************************************)
NoErr == << >>
\* the error os.Stat returns for a path that does not exist
StatErr(path) == <<"stat", path>>
\* the error strconv.Atoi returns for a string that is no integer
AtoiErr(value) == <<"strconv.Atoi", value>>

\* strconv.Atoi on the attribute values the documents carry
Atoi(value) ==
    CASE value = "0" -> [n |-> 0, err |-> NoErr]
      [] value = "1" -> [n |-> 1, err |-> NoErr]
      [] value = "2" -> [n |-> 2, err |-> NoErr]
      [] value = "5" -> [n |-> 5, err |-> NoErr]
      [] OTHER -> [n |-> 0, err |-> AtoiErr(value)]

(***************************************************************************)
(* Documents: the token streams xml.Decoder hands to Parse                 *)
(***************************************************************************)
\* an xml.Attr with an empty Name.Space
A(local, value) == [space |-> "", local |-> local, value |-> value]
\* the xml.Attr of a namespace declaration xmlns:prefix="uri"
XA(prefix, uri) == [space |-> "xmlns", local |-> prefix, value |-> uri]
\* xml.StartElement, xml.EndElement and xml.CharData tokens
St(name, attrs) == [t |-> "start", name |-> name, attrs |-> attrs]
En(name) == [t |-> "end", name |-> name]
Cd(text) == [t |-> "chardata", text |-> text]
\* an element without content: a start tag and its end tag
Leaf(name, attrs) == <<St(name, attrs), En(name)>>

SchemaStart == St("schema", <<XA("xs", "XS"), XA("a", "NA"), XA("b", "NB")>>)
\* the root of a schema that binds prefix a to a namespace of its own
SchemaStartOther ==
    St("schema", <<XA("xs", "XS"), XA("a", "NZ"), XA("b", "NB")>>)
SchemaEnd == En("schema")

\* <simpleType name=n><restriction base=b/></simpleType>
RestrictedType(n, b) ==
    <<St("simpleType", <<A("name", n)>>)>>
    \o Leaf("restriction", <<A("base", b)>>)
    \o <<En("simpleType")>>

\* the declarations a document is assembled from
Snippet(id) ==
    CASE id = "shadow" -> RestrictedType(N("string"), Q("xs", "int"))
      [] id = "localT" -> RestrictedType(N("T"), Q("xs", "int"))
      [] id = "localL" -> RestrictedType(N("L"), Q("xs", "int"))
      [] id = "enumE" ->
            <<St("simpleType", <<A("name", N("E"))>>),
              St("restriction", <<A("base", Q("xs", "string"))>>)>>
            \o Leaf("enumeration", <<A("value", "A")>>)
            \o Leaf("enumeration", <<A("value", "B")>>)
            \o <<En("restriction"), En("simpleType")>>
      [] id = "elemEnum" ->
            <<St("element", <<A("name", N("k"))>>), St("simpleType", << >>),
              St("restriction", <<A("base", Q("xs", "string"))>>)>>
            \o Leaf("enumeration", <<A("value", "Z")>>)
            \o <<En("restriction"), En("simpleType"), En("element")>>
      [] id = "docT" ->
            <<St("simpleType", <<A("name", N("D"))>>), St("annotation", << >>),
              St("documentation", << >>), Cd("doc"), En("documentation"),
              En("annotation")>>
            \o Leaf("restriction", <<A("base", Q("xs", "int"))>>)
            \o <<En("simpleType")>>
      [] id = "unionU" ->
            <<St("simpleType", <<A("name", N("U"))>>)>>
            \o Leaf("union", <<A("memberTypes", <<Q("xs", "string"), N("L")>>)>>)
            \o <<En("simpleType")>>
      [] id = "useBuiltin" ->
            Leaf("element", <<A("name", N("e")), A("type", Q("xs", "string"))>>)
      [] id = "useBare" ->
            Leaf("attribute", <<A("name", N("at")), A("type", N("string"))>>)
      [] id = "refB" ->
            Leaf("element", <<A("name", N("f")), A("type", Q("b", "T"))>>)
      [] id = "refLocal" ->
            Leaf("element", <<A("name", N("g")), A("type", N("T"))>>)
      [] id = "refSelf" ->
            Leaf("element", <<A("name", N("s")), A("type", Q("a", "U"))>>)
      [] id = "badOcc" ->
            Leaf("element", <<A("name", N("h")), A("type", Q("xs", "int")),
                              A("maxOccurs", "x")>>)
      [] id = "attrT" -> Leaf("attribute", <<A("name", N("T"))>>)
      [] id = "elemAnon" ->
            <<St("element", <<A("name", N("w"))>>)>>
            \o Leaf("complexType", << >>)
            \o <<En("element")>>
      [] id = "ctStale" ->
            <<St("complexType", <<A("name", N("R"))>>), St("sequence", << >>)>>
            \o Leaf("element", <<A("name", N("v"))>>)
            \o Leaf("element", <<A("name", N("z")), A("type", Q("xs", "int")),
                                 A("maxOccurs", "unbounded")>>)
            \o <<En("sequence"), St("attribute", <<A("name", N("a"))>>),
                 St("simpleType", << >>)>>
            \o Leaf("restriction", <<A("base", Q("xs", "string"))>>)
            \o <<En("simpleType"), En("attribute"), En("complexType")>>
      [] id = "grpUntyped" ->
            <<St("group", <<A("name", N("G"))>>), St("sequence", << >>)>>
            \o Leaf("element", <<A("name", N("x"))>>)
            \o <<En("sequence"), En("group")>>
      [] id = "grpAnon" ->
            <<St("group", <<A("name", N("H"))>>), St("sequence", << >>),
              St("element", <<A("name", N("y"))>>)>>
            \o Leaf("complexType", << >>)
            \o <<En("element"), En("sequence"), En("group")>>
      [] id = "ctype" ->
            <<St("complexType", <<A("name", N("C"))>>), St("sequence", << >>)>>
            \o Leaf("element", <<A("name", N("z")), A("type", Q("xs", "string"))>>)
            \o <<En("sequence")>>
            \o Leaf("attribute", <<A("name", N("w")), A("type", Q("xs", "int"))>>)
            \o <<En("complexType")>>
      [] id = "ctypeUntyped" ->
            <<St("complexType", <<A("name", N("D"))>>), St("sequence", << >>)>>
            \o Leaf("element", <<A("name", N("v"))>>)
            \o <<En("sequence"), En("complexType")>>
      [] id = "ctAnon" -> Leaf("complexType", << >>)
      [] id = "seqBad" ->
            <<St("complexType", <<A("name", N("S"))>>),
              St("sequence", <<A("maxOccurs", "x")>>)>>
            \o Leaf("element", <<A("name", N("q")), A("type", Q("xs", "int"))>>)
            \o <<En("sequence"), En("complexType")>>
      [] id = "choiceBad" ->
            <<St("complexType", <<A("name", N("B"))>>),
              St("choice", <<A("maxOccurs", "x")>>)>>
            \o Leaf("element", <<A("name", N("r")), A("type", Q("xs", "int"))>>)
            \o <<En("choice"), En("complexType")>>
      [] id = "choicePl" ->
            <<St("complexType", <<A("name", N("P"))>>),
              St("choice", <<A("maxOccurs", "unbounded")>>)>>
            \o Leaf("element", <<A("name", N("c1")), A("type", Q("xs", "int"))>>)
            \o <<St("choice", << >>)>>
            \o Leaf("element", <<A("name", N("c2"))>>)
            \o <<En("choice"), En("choice"), En("complexType")>>
      [] id = "choiceTwo" ->
            <<St("complexType", <<A("name", N("W"))>>), St("sequence", << >>),
              St("choice", <<A("maxOccurs", "2")>>)>>
            \o Leaf("element", <<A("name", N("c3")), A("type", Q("xs", "int"))>>)
            \o <<En("choice"), St("choice", <<A("maxOccurs", "1")>>)>>
            \o Leaf("element", <<A("name", N("c4")), A("type", Q("xs", "int"))>>)
            \o <<En("choice"), En("sequence"), En("complexType")>>
      [] id = "ctInner" ->
            <<St("complexType", <<A("name", N("M"))>>), St("sequence", << >>),
              St("element", <<A("name", N("m"))>>), St("simpleType", << >>)>>
            \o Leaf("restriction", <<A("base", Q("xs", "int"))>>)
            \o <<En("simpleType"), En("element"), En("sequence"),
                 En("complexType")>>
      [] id = "unionNest" ->
            <<St("simpleType", <<A("name", N("V"))>>), St("union", << >>),
              St("simpleType", << >>)>>
            \o Leaf("restriction", <<A("base", Q("xs", "int"))>>)
            \o <<En("simpleType"), En("union"), En("simpleType")>>
      [] id = "attrUnion" ->
            <<St("attribute", <<A("name", N("b"))>>), St("simpleType", << >>)>>
            \o Leaf("union", <<A("memberTypes", <<Q("xs", "string")>>)>>)
            \o <<En("simpleType"), En("attribute")>>
      [] id = "attrUnion2" ->
            <<St("attribute", <<A("name", N("d"))>>), St("simpleType", << >>),
              St("union", << >>), St("simpleType", << >>)>>
            \o Leaf("union", <<A("memberTypes", <<Q("xs", "string")>>)>>)
            \o <<En("simpleType"), En("union"), En("simpleType"),
                 En("attribute")>>
      [] id = "ctDup" ->
            <<St("complexType", <<A("name", N("X"))>>), St("choice", << >>)>>
            \o Leaf("element", <<A("name", N("z")), A("type", Q("xs", "int"))>>)
            \o Leaf("element", <<A("name", N("z")), A("type", Q("xs", "string"))>>)
            \o Leaf("element", <<A("name", N("z")), A("type", Q("xs", "string")),
                                 A("maxOccurs", "unbounded")>>)
            \o <<En("choice"), En("complexType")>>
      [] id = "elemDoc" ->
            <<St("element", <<A("name", N("n"))>>), St("complexType", << >>),
              St("attribute", <<A("name", N("a")), A("type", Q("xs", "int"))>>),
              St("annotation", << >>), St("documentation", << >>),
              Cd("about a"), En("documentation"), En("annotation"),
              En("attribute"), En("complexType"), En("element")>>
      [] id = "attrDoc" ->
            <<St("attribute", <<A("name", N("c")), A("type", Q("xs", "int"))>>),
              St("annotation", << >>), St("documentation", << >>),
              Cd("about c"), En("documentation"), En("annotation"),
              En("attribute")>>
      [] id = "seqOuter" ->
            <<St("complexType", <<A("name", N("O"))>>),
              St("sequence", <<A("maxOccurs", "unbounded")>>),
              St("element", <<A("name", N("o"))>>),
              St("complexType", << >>), St("choice", << >>)>>
            \o Leaf("element", <<A("name", N("i")), A("type", Q("xs", "int"))>>)
            \o <<En("choice"), En("complexType"), En("element"),
                 En("sequence"), En("complexType")>>
      [] id = "baseT" -> RestrictedType(N("B"), cfg.base)
      [] id = "extT" ->
            <<St("complexType", <<A("name", N("E"))>>),
              St("simpleContent", << >>)>>
            \o Leaf("extension", <<A("base", cfg.base)>>)
            \o <<En("simpleContent"), En("complexType")>>
      [] id = "tagCharData" -> Leaf("charData", << >>)
      [] id = "tagElement" ->
            Leaf("Element", <<A("name", N("p")), A("type", Q("xs", "int"))>>)
      [] id = "tagAppinfo" ->
            <<St("annotation", << >>)>> \o Leaf("appinfo", << >>)
            \o <<En("annotation")>>
      [] id = "grpTyped" ->
            <<St("group", <<A("name", N("K"))>>), St("sequence", << >>)>>
            \o Leaf("element", <<A("name", N("u")), A("type", Q("xs", "int"))>>)
            \o <<En("sequence"), En("group")>>

\* the import or include a document starts with
Link(id) ==
    CASE id = "none" -> << >>
      [] id = "importB" ->
            Leaf("import", <<A("namespace", "NB"), A("schemaLocation", <<"b.xsd">>)>>)
      [] id = "importBRev" ->
            Leaf("import", <<A("schemaLocation", <<"b.xsd">>), A("namespace", "NB")>>)
      [] id = "importA" ->
            Leaf("import", <<A("namespace", "NA"), A("schemaLocation", <<"a.xsd">>)>>)
      [] id = "importURL" ->
            Leaf("import", <<A("namespace", "NB"),
                             A("schemaLocation", <<"http:", "", "host", "b.xsd">>)>>)
      [] id = "includeB" ->
            Leaf("include", <<A("schemaLocation", <<"b.xsd">>)>>)
      [] id = "includeURL" ->
            Leaf("include",
                 <<A("schemaLocation", <<"http:", "", "host", "b.xsd">>)>>)
      [] id = "includeA" ->
            Leaf("include", <<A("schemaLocation", <<"a.xsd">>)>>)

RECURSIVE Concat(_)
Concat(ss) == IF ss = << >> THEN << >> ELSE Head(ss) \o Concat(Tail(ss))

\* a schema document: root start tag, link, declarations, root end tag
Document(root, link, decls) ==
    <<root>> \o Link(link)
    \o Concat([i \in 1..Len(decls) |-> Snippet(decls[i])])
    \o <<SchemaEnd>>

\* the dependency file b.xsd: its link and its declarations
DocB(id) ==
    CASE id = "typeT" -> <<"none", <<"localT">>>>
      [] id = "attrT" -> <<"none", <<"attrT", "useBuiltin">>>>
      [] id = "bad" -> <<"none", <<"badOcc", "localT">>>>
      [] id = "cycle" -> <<"importA", <<"refSelf", "localT">>>>
      [] id = "inclA" -> <<"includeA", <<"localT">>>>
      [] id = "inclBare" -> <<"includeA", << >>>>
      [] id = "rebind" -> <<"none", <<"localT">>>>

\* the file system: cleaned path -> a directory or a file
\* (cfg.docB = "absent": there is no b.xsd)
FS ==
    LET base == (<<".">> :> [isDir |-> TRUE]) @@ (<<"a.xsd">> :> [isDir |-> FALSE])
    IN IF cfg.docB = "absent" THEN base
       ELSE base @@ (<<"b.xsd">> :> [isDir |-> FALSE])

\* os.Stat: the operating system resolves the path, cleaned or not
Stat(path) ==
    LET fs == FS IN
    IF Clean(path) \in DOMAIN fs
    THEN [err |-> NoErr, isDir |-> fs[Clean(path)].isDir]
    ELSE [err |-> StatErr(path), isDir |-> FALSE]

\* the tokens of the file at path: a.xsd as the run configures it, or b.xsd
Source(path) ==
    LET d == IF Clean(path) = <<"a.xsd">> THEN <<cfg.linkA, cfg.declsA>>
             ELSE DocB(cfg.docB)
        root == IF Clean(path) # <<"a.xsd">> /\ cfg.docB = "rebind"
                THEN SchemaStartOther ELSE SchemaStart
    IN  Document(root, d[1], d[2])

\* the file a.xsd ends, or is malformed, after cfg.cut of its tokens
Damaged(path, doc) ==
    Clean(path) = <<"a.xsd">> /\ cfg.cut > 0 /\ cfg.cut < Len(doc)

\* what decoder.Token() returns with a nil token (src/parser.go:103): io.EOF
\* at the end of the document, a syntax error where the file is damaged
EOF == <<"EOF">>
SyntaxError == <<"XML syntax error: unexpected EOF">>
TokenErr(path) ==
    IF Damaged(path, Source(path)) THEN SyntaxError ELSE EOF

\* the tokens decoder.Token() returns ahead of the nil token
Tokens(path) ==
    LET doc == Source(path) IN
    IF Damaged(path, doc) THEN SubSeq(doc, 1, cfg.cut) ELSE doc

(***************************************************************************)
(* The symbol stack (a stack holds references into the parser's heap; 0 is *)
(* the nil a Pop or Peek of an empty stack returns)                        *)
(***************************************************************************)
\* src/stack.go Stack.Len
StackLen(s) == Len(s)
\* src/stack.go Stack.Empty
Empty(s) == Len(s) = 0
\* src/stack.go Stack.Push
Push(s, v) == Append(s, v)
\* src/stack.go Stack.Peek
Peek(s) == IF Len(s) = 0 THEN 0 ELSE s[Len(s)]
\* src/stack.go Stack.Pop: the stack that is left
PopRest(s) == IF Len(s) = 0 THEN s ELSE SubSeq(s, 1, Len(s) - 1)

(***************************************************************************)
(* The symbol stack as a chain of nodes (src/unnamed/part_020): top and    *)
(* prev are references into nodes, 0 being nil                             *)
(***************************************************************************)
\* NewStack
NewLinked == [top |-> 0, length |-> 0, nodes |-> << >>]
\* Stack.Len
LinkedLen(s) == s.length
\* Stack.Peek
LinkedPeek(s) == IF s.length = 0 THEN 0 ELSE s.nodes[s.top].value
\* Stack.Pop: the value returned
LinkedPopValue(s) == IF s.length = 0 THEN 0 ELSE s.nodes[s.top].value
\* Stack.Pop keeping the length
LinkedPop_KeepLength(s) ==
    IF s.length = 0 THEN s ELSE [s EXCEPT !.top = s.nodes[s.top].prev]
\* Stack.Pop: the stack that is left
LinkedPop(s) ==
    IF s.length = 0 THEN s
    ELSE [s EXCEPT !.top = s.nodes[s.top].prev, !.length = @ - 1]
\* Stack.Push
LinkedPush(s, value) ==
    [top |-> Len(s.nodes) + 1, length |-> s.length + 1,
     nodes |-> Append(s.nodes, [value |-> value, prev |-> s.top])]

(***************************************************************************)
(* One Parse invocation: the Options value of one parser and the position  *)
(* of its Parse, handler and GetValueType calls                            *)
(***************************************************************************)
\* the locals of the handler being run
NoHandler ==
    [name |-> "", ph |-> "idle", ai |-> 1, mi |-> 1, e |-> NilNode,
     eref |-> 0, err |-> NoErr]

\* the locals of the GetValueType call being run
NoGVT ==
    [on |-> FALSE, value |-> EmptyStr, stage |-> "idle",
     valueType |-> EmptyStr, xsdFile |-> << >>, must |-> {}, seen |-> {},
     ret |-> [vt |-> EmptyStr, err |-> NoErr],
     nested |-> 0, failed |-> FALSE, consulted |-> FALSE]

\* src/parser.go Options, as NewParser receives it at :183, :210, :231 and
\* as Parse resets it at :85-99
NewFrame(FilePath, Extract) ==
    [FilePath |-> FilePath, Extract |-> Extract, pos |-> 1, pc |-> "loop",
     err |-> NoErr, ProtoTree |-> << >>, heap |-> << >>,
     InElement |-> "", CurrentEle |-> "", InGroup |-> 0, InUnion |-> FALSE,
     InAttributeGroup |-> FALSE, InPluralSequence |-> << >>,
     SimpleType |-> << >>, ComplexType |-> << >>, Element |-> << >>,
     Attribute |-> << >>, Group |-> << >>, AttributeGroup |-> << >>,
     Choice |-> << >>,
     h |-> NoHandler, g |-> NoGVT,
     opened |-> FALSE, failedAt |-> 0, failedErr |-> NoErr,
     generated |-> FALSE]

\* the node a reference points to
Deref(f, r) == IF r = 0 THEN NilNode ELSE f.heap[r]
\* the nodes of a slice of references
Nodes(f, refs) == [i \in 1..Len(refs) |-> Deref(f, refs[i])]
\* opt.ProtoTree as the nodes it points to
Tree(f) == Nodes(f, f.ProtoTree)
\* write through a pointer
Store(f, r, node) == [f EXCEPT !.heap[r] = node]
\* the reference a fresh allocation gets
NextRef(f) == Len(f.heap) + 1
\* allocate node
Alloc(f, node) == [f EXCEPT !.heap = Append(@, node)]
\* src/parser.go:66
FileDir(f) == Dir(f.FilePath)
\* the token Parse is dispatching
CurTok(f) == Tokens(f.FilePath)[f.pos]

(***************************************************************************)
(* GetValueType.  A machine value m is what one parser reads and writes    *)
(* while it runs: its frame f, the maps it shares with its parent (inc =   *)
(* IncludeMap, lns = LocalNameNSMap, nsl = NSSchemaLocationMap, pfm =      *)
(* ParseFileMap), the result res of the nested Parse that just returned,   *)
(* and the log of the GetValueType calls that returned in this step.       *)
(***************************************************************************)
\* src/xmlSchema.go parseNS
parseNS(lns, str) == MapGet(lns, getNSPrefix(str), "")

\* whether some node of the tree carries the name
NameInTree(name, tree) == \E i \in 1..Len(tree) : tree[i].kind # "nil" /\ tree[i].Name = name

\* GetValueType returns (valueType, err); the call is recorded in the log
GVTReturn(m, valueType, err) ==
    [m EXCEPT
        !.f.g = [NoGVT EXCEPT !.ret = [vt |-> valueType, err |-> err]],
        !.log = Append(@,
            [file |-> m.f.FilePath, extract |-> m.f.Extract,
             value |-> m.f.g.value, vt |-> valueType, err |-> err,
             nested |-> m.f.g.nested, failed |-> m.f.g.failed,
             consulted |-> m.f.g.consulted,
             shadow |-> NameInTree(trimNSPrefix(m.f.g.value), Tree(m.f))])]

StopsInExtract_Never(f) == FALSE

\* src/parser.go:166 if opt.Extract { return }
StopsInExtract(f) == f.Extract

Cached_Never(pfm, xsdFile) == FALSE

\* src/parser.go:208-209 depXSDSchema, ok := opt.ParseFileMap[xsdFile]
Cached(pfm, xsdFile) == xsdFile \in DOMAIN pfm

\* src/parser.go:163 and :228: a lookup that found a type other than the name
Resolved(valueType, value) ==
    valueType # trimNSPrefix(value) /\ valueType # EmptyStr

\* src/parser.go:157-181: builtin table, local lookup, extract mode, schema
\* location, os.Stat
GVTStart(m) ==
    LET f == m.f
        value == f.g.value
        buildIn == getBuildInTypeByLang(trimNSPrefix(value), cfg.lang)
        valueType == getBasefromSimpleType(trimNSPrefix(value), Tree(f))
        schemaLocation == MapGet(m.nsl, parseNS(m.lns, value), << >>)
        xsdFile == Join(FileDir(f), schemaLocation)
        fi == Stat(xsdFile)
        mc == [m EXCEPT !.f.g.consulted = TRUE]
    IN  IF buildIn.ok THEN GVTReturn(m, buildIn.buildType, NoErr)
        ELSE IF Resolved(valueType, value) THEN GVTReturn(m, valueType, NoErr)
        ELSE IF StopsInExtract(f) THEN GVTReturn(m, valueType, NoErr)
        ELSE IF isValidURL(schemaLocation) THEN GVTReturn(mc, valueType, NoErr)
        ELSE IF fi.err # NoErr THEN GVTReturn(mc, valueType, fi.err)
        ELSE IF fi.isDir
             THEN [mc EXCEPT !.f.g.stage = "inc", !.f.g.valueType = EmptyStr,
                             !.f.g.must = m.inc, !.f.g.seen = {}]
             ELSE [mc EXCEPT !.f.g.stage = "sib", !.f.g.valueType = valueType,
                             !.f.g.xsdFile = xsdFile]

\* src/parser.go:202-205: the loop over IncludeMap is over
GVTIncEnd(m) ==
    LET g == m.f.g IN
    GVTReturn(m, IF g.valueType = EmptyStr THEN trimNSPrefix(g.value)
                 ELSE g.valueType, NoErr)

\* src/parser.go:182: the next key of IncludeMap, if there is one left (the
\* parser blocks until one is chosen: Go fixes no iteration order)
GVTInc(m) ==
    IF m.inc \ m.f.g.seen = {} THEN GVTIncEnd(m)
    ELSE [m EXCEPT !.f.pc = "call"]

\* src/parser.go:195-200: the extract-mode Parse of an include returned
GVTIncRet(m) ==
    LET g == m.f.g
        name == trimNSPrefix(g.value)
        vt == getBasefromSimpleType(name, m.res.tree)
    IN  IF m.res.err # NoErr
        THEN GVTReturn([m EXCEPT !.f.g.failed = TRUE], g.valueType, NoErr)
        ELSE [m EXCEPT !.f.g.stage = "inc",
                       !.f.g.valueType = IF vt # name THEN vt ELSE g.valueType]

\* src/parser.go:227-231: search the dependency's tree, else ask for an
\* extract-mode Parse of the file
GVTSib2(m, depXSDSchema) ==
    LET g == m.f.g
        valueType == getBasefromSimpleType(trimNSPrefix(g.value), depXSDSchema)
    IN  IF Resolved(valueType, g.value) THEN GVTReturn(m, valueType, NoErr)
        ELSE [m EXCEPT !.f.g.stage = "sibExt", !.f.g.valueType = valueType,
                       !.f.pc = "call"]

\* src/parser.go:208-210: the cache, else ask for a full Parse of the file
GVTSib(m) ==
    IF Cached(m.pfm, m.f.g.xsdFile) THEN GVTSib2(m, m.pfm[m.f.g.xsdFile])
    ELSE [m EXCEPT !.f.g.stage = "sibFull", !.f.pc = "call"]

\* src/parser.go:222-226: the full Parse of the dependency returned
GVTSibFullRet(m) ==
    IF m.res.err # NoErr
    THEN GVTReturn([m EXCEPT !.f.g.failed = TRUE], m.f.g.valueType, NoErr)
    ELSE GVTSib2(m, m.res.tree)

\* src/parser.go:243-247: the extract-mode Parse of the dependency returned
GVTSibExtRet(m) ==
    IF m.res.err # NoErr
    THEN GVTReturn([m EXCEPT !.f.g.failed = TRUE], m.f.g.valueType, NoErr)
    ELSE GVTReturn(m, getBasefromSimpleType(trimNSPrefix(m.f.g.value),
                                            m.res.tree), NoErr)

\* src/parser.go Options.GetValueType: one step of the call in progress
GetValueType(m) ==
    LET stage == m.f.g.stage IN
    CASE stage = "start" -> GVTStart(m)
      [] stage = "inc" -> GVTInc(m)
      [] stage = "incRet" -> GVTIncRet(m)
      [] stage = "incEnd" -> GVTIncEnd(m)
      [] stage = "sib" -> GVTSib(m)
      [] stage = "sibFullRet" -> GVTSibFullRet(m)
      [] stage = "sibExtRet" -> GVTSibExtRet(m)

\* a handler calls opt.GetValueType(value, protoTree) and goes on at phase ph
\* (protoTree and opt.ProtoTree hold the same nodes at every call)
CallGVT(m, value, ph) ==
    [m EXCEPT !.f.g = [NoGVT EXCEPT !.on = TRUE, !.value = value,
                                    !.stage = "start"],
              !.f.h.ph = ph]

(***************************************************************************)
(* Handlers.  A handler runs in phases: "pre" (before its loop over the    *)
(* attributes), "attr" (the loop, at attribute ai), "tail" (after the      *)
(* loop); a phase ending in "Ret" goes on after a GetValueType call        *)
(* returned.  It ends "done" (with h.err what it returns) or "panic".      *)
(***************************************************************************)
\* the handler returns nil
Done(m) == [m EXCEPT !.f.h.ph = "done"]
\* the handler returns err
Fail(m, err) == [m EXCEPT !.f.h.ph = "done", !.f.h.err = err]
\* the handler raises a runtime panic (a failed type assertion on nil, a
\* slice bound out of range)
Panic(m) == [m EXCEPT !.f.h.ph = "panic"]
\* the value of the attribute named local, when ele carries one (the last)
HasAttr(ele, local) == \E i \in 1..Len(ele.attrs) : ele.attrs[i].local = local
AttrValue(ele, local) ==
    ele.attrs[CHOOSE i \in 1..Len(ele.attrs) :
                /\ ele.attrs[i].local = local
                /\ \A j \in (i + 1)..Len(ele.attrs) : ele.attrs[j].local # local].value

\* src/xmlSchema.go prepareLocalNameNSMap
RECURSIVE prepareLocalNameNSMap(_, _, _)
prepareLocalNameNSMap(lns, attrs, i) ==
    IF i > Len(attrs) THEN lns
    ELSE prepareLocalNameNSMap(
            IF attrs[i].space = "xmlns"
            THEN MapPut(lns, attrs[i].local, attrs[i].value) ELSE lns,
            attrs, i + 1)

\* src/xmlSchema.go OnSchema
OnSchema(m, ele) == Done([m EXCEPT !.lns = prepareLocalNameNSMap(@, ele.attrs, 1)])

\* src/xmlSchema.go prepareNSSchemaLocationMap
RECURSIVE prepareNSSchemaLocationMap(_, _, _, _)
prepareNSSchemaLocationMap(nsl, attrs, i, currentNS) ==
    IF i > Len(attrs) THEN nsl
    ELSE LET a == attrs[i] IN
         IF a.local = "namespace"
         THEN prepareNSSchemaLocationMap(nsl, attrs, i + 1, a.value)
         ELSE IF a.local = "schemaLocation"
         THEN prepareNSSchemaLocationMap(
                IF currentNS \in DOMAIN nsl \/ isValidURL(a.value) THEN nsl
                ELSE MapPut(nsl, currentNS, a.value),
                attrs, i + 1, currentNS)
         ELSE prepareNSSchemaLocationMap(nsl, attrs, i + 1, currentNS)

\* src/xmlAttributeGroup.go OnImport
OnImport(m, ele) ==
    Done([m EXCEPT !.nsl = prepareNSSchemaLocationMap(@, ele.attrs, 1, "")])

\* src/xmlInclude.go OnInclude (IncludeMap as the set of its keys)
OnInclude(m, ele) ==
    Done([m EXCEPT !.inc = @ \cup {ele.attrs[i].value : i \in
                {j \in 1..Len(ele.attrs) : ele.attrs[j].local = "schemaLocation"}}])

\* src/unnamed/part_003 OnSimpleType
OnSimpleType(m, ele) ==
    LET f0 == m.f
        f1 == IF StackLen(f0.SimpleType) = 0
              THEN [Alloc(f0, NewSimpleType) EXCEPT
                        !.SimpleType = Push(@, NextRef(f0))]
              ELSE f0
        f2 == [f1 EXCEPT !.CurrentEle = f1.InElement]
        r == Peek(f2.SimpleType)
    IN  Done([m EXCEPT !.f =
            IF HasAttr(ele, "name")
            THEN Store(f2, r, [Deref(f2, r) EXCEPT !.Name = AttrValue(ele, "name")])
            ELSE f2])

\* src/unnamed/part_003 EndSimpleType
EndSimpleType(m, ele) ==
    LET f == m.f IN
    IF StackLen(f.SimpleType) > 0 /\ StackLen(f.Attribute) > 0
    THEN LET a == Peek(f.Attribute)
             st == Deref(f, Peek(f.SimpleType))
         IN  Done([m EXCEPT !.f =
                [Store(f, a, [Deref(f, a) EXCEPT !.Type = st.Base])
                    EXCEPT !.SimpleType = PopRest(@)]])
    ELSE LET f1 == IF ele.name = f.CurrentEle /\ StackLen(f.ComplexType) = 1
                   THEN [f EXCEPT !.ProtoTree = Append(@, Peek(f.ComplexType)),
                                  !.ComplexType = PopRest(@),
                                  !.CurrentEle = ""]
                   ELSE f
             f2 == IF ele.name = f1.CurrentEle /\ ~f1.InUnion
                   THEN [f1 EXCEPT !.ProtoTree = Append(@, Peek(f1.SimpleType)),
                                   !.SimpleType = PopRest(@),
                                   !.CurrentEle = ""]
                   ELSE f1
         IN  Done([m EXCEPT !.f = f2])

\* src/xmlComplexType.go OnComplexType
OnComplexType(m, ele) ==
    LET f == m.f IN
    IF StackLen(f.ComplexType) > 0
    THEN \* e := opt.Element.Pop().(*Element)
         IF Peek(f.Element) = 0 THEN Panic(m)
         ELSE LET e == Deref(f, Peek(f.Element))
                  f1 == [f EXCEPT !.Element = PopRest(@)]
              IN  Done([m EXCEPT !.f =
                    [Alloc(f1, [NewComplexType EXCEPT !.Name = e.Name])
                        EXCEPT !.ComplexType = Push(@, NextRef(f1))]])
    ELSE LET name == IF HasAttr(ele, "name") THEN AttrValue(ele, "name")
                     ELSE EmptyStr
             f1 == [f EXCEPT !.CurrentEle = f.InElement]
         IN  IF name = EmptyStr
             THEN IF Peek(f1.Element) = 0 THEN Panic([m EXCEPT !.f = f1])
                  ELSE LET e == Deref(f1, Peek(f1.Element))
                           f2 == [f1 EXCEPT !.Element = PopRest(@)]
                       IN  Done([m EXCEPT !.f =
                            [Alloc(f2, [NewComplexType EXCEPT !.Name = e.Name])
                                EXCEPT !.ComplexType = Push(@, NextRef(f2))]])
             ELSE Done([m EXCEPT !.f =
                    [Alloc(f1, [NewComplexType EXCEPT !.Name = name])
                        EXCEPT !.ComplexType = Push(@, NextRef(f1))]])

\* src/xmlComplexType.go EndComplexType
EndComplexType(m, ele) ==
    Done([m EXCEPT !.f.ProtoTree = Append(@, Peek(m.f.ComplexType)),
                   !.f.ComplexType = PopRest(@),
                   !.f.CurrentEle = ""])

\* src/xmlElement.go EndElement
EndElement(m, ele) ==
    IF StackLen(m.f.Element) > 0 /\ StackLen(m.f.ComplexType) = 0
    THEN Done([m EXCEPT !.f.ProtoTree = Append(@, Peek(m.f.Element)),
                        !.f.Element = PopRest(@)])
    ELSE Done(m)

\* src/unnamed/part_008 EndAttribute
EndAttribute(m, ele) ==
    LET f == m.f IN
    IF StackLen(f.Attribute) = 0 THEN Done(m)
    ELSE IF StackLen(f.AttributeGroup) > 0
    THEN LET ag == Peek(f.AttributeGroup) IN
         Done([m EXCEPT !.f =
            [Store(f, ag, [Deref(f, ag) EXCEPT
                    !.Attributes = Append(@, Deref(f, Peek(f.Attribute)))])
                EXCEPT !.Attribute = PopRest(@)]])
    ELSE IF StackLen(f.ComplexType) = 0
    THEN Done([m EXCEPT !.f.ProtoTree = Append(@, Peek(f.Attribute)),
                        !.f.Attribute = PopRest(@)])
    ELSE Done(m)

\* src/xmlGroup.go EndGroup
EndGroup(m, ele) ==
    LET f == m.f
        f1 == IF ele.name = f.CurrentEle /\ f.InGroup = 1
              THEN [f EXCEPT !.ProtoTree = Append(@, Peek(f.Group)),
                             !.Group = PopRest(@),
                             !.CurrentEle = "",
                             !.InGroup = @ - 1]
              ELSE f
        f2 == IF ele.name = f1.CurrentEle
              THEN [f1 EXCEPT !.InGroup = @ - 1] ELSE f1
    IN  Done([m EXCEPT !.f = f2])

\* src/unnamed/part_009 EndAttributeGroup
EndAttributeGroup(m, ele) ==
    IF StackLen(m.f.AttributeGroup) > 0
    THEN Done([m EXCEPT !.f.ProtoTree = Append(@, Peek(m.f.AttributeGroup)),
                        !.f.AttributeGroup = PopRest(@),
                        !.f.CurrentEle = "",
                        !.f.InAttributeGroup = FALSE])
    ELSE Done(m)

\* src/xmlSequence.go OnSequence: the plurality the first decisive maxOccurs
\* attribute gives
RECURSIVE sequencePlural(_, _)
sequencePlural(attrs, i) ==
    IF i > Len(attrs) THEN FALSE
    ELSE IF attrs[i].local = "maxOccurs"
            /\ (\/ attrs[i].value = "unbounded"
                \/ (Atoi(attrs[i].value).err = NoErr /\ Atoi(attrs[i].value).n > 1))
    THEN TRUE
    ELSE sequencePlural(attrs, i + 1)

\* src/xmlSequence.go OnSequence
OnSequence(m, ele) ==
    Done([m EXCEPT !.f.InPluralSequence = Append(@, sequencePlural(ele.attrs, 1))])

\* src/xmlSequence.go EndSequence
EndSequence(m, ele) ==
    IF Len(m.f.InPluralSequence) = 0 THEN Panic(m)
    ELSE Done([m EXCEPT !.f.InPluralSequence = SubSeq(@, 1, Len(@) - 1)])

\* src/unnamed/part_012 EndChoice
EndChoice(m, ele) == Done([m EXCEPT !.f.Choice = PopRest(@)])

\* src/xmlUnion.go EndUnion
EndUnion(m, ele) ==
    IF StackLen(m.f.SimpleType) > 0 THEN Done([m EXCEPT !.f.InUnion = FALSE])
    ELSE Done(m)

(***************************************************************************)
(* Handlers that call GetValueType                                         *)
(***************************************************************************)
\* the loop over ele.Attr goes on with the next attribute
NextAttr(m) == [m EXCEPT !.f.h.ai = @ + 1, !.f.h.ph = "attr"]
\* the handler's local node (e, attribute, group, attributeGroup): once its
\* address was pushed it lives on the heap
Local(m) == IF m.f.h.eref = 0 THEN m.f.h.e ELSE Deref(m.f, m.f.h.eref)
SetLocal(m, node) ==
    IF m.f.h.eref = 0 THEN [m EXCEPT !.f.h.e = node]
    ELSE [m EXCEPT !.f = Store(@, m.f.h.eref, node)]
\* push the address of the handler's local node
PushLocal(f, stackName) ==
    IF f.h.eref # 0 THEN [f EXCEPT ![stackName] = Push(@, f.h.eref)]
    ELSE [Alloc(f, f.h.e) EXCEPT ![stackName] = Push(@, NextRef(f)),
                                 !.h.eref = NextRef(f)]

\* src/xmlElement.go findElement: the index of the first element of that
\* name, 0 when there is none
findElement(element, elements) ==
    IF \E i \in 1..Len(elements) : elements[i].Name = element.Name
    THEN CHOOSE i \in 1..Len(elements) :
            /\ elements[i].Name = element.Name
            /\ \A j \in 1..(i - 1) : elements[j].Name # element.Name
    ELSE 0

\* src/xmlElement.go:65-95
OnElementTail(m) ==
    LET inChoice == Len(m.f.Choice) > 0 /\ m.f.Choice[Len(m.f.Choice)]
        m1 == SetLocal(m, [Local(m) EXCEPT !.Plural = @ \/ inChoice])
        f == m1.f
        e == Local(m1)
    IN  IF StackLen(f.ComplexType) > 0
        THEN LET c == Peek(f.ComplexType)
                 ct == Deref(f, c)
                 i == findElement(e, ct.Elements)
             IN  IF i # 0 /\ ct.Elements[i].Type = e.Type
                 THEN Done([m1 EXCEPT !.f = Store(f, c,
                        [ct EXCEPT !.Elements[i].Plural = @ \/ e.Plural])])
                 ELSE Done([m1 EXCEPT !.f = Store(f, c,
                        [ct EXCEPT !.Elements = Append(@, e)])])
        ELSE IF f.InGroup > 0
        THEN IF StackLen(f.Group) > 0
             THEN LET g == Peek(f.Group) IN
                  Done([m1 EXCEPT !.f = Store(f, g,
                        [Deref(f, g) EXCEPT !.Elements = Append(@, e)])])
             ELSE Done(m1)
        ELSE Done([m1 EXCEPT !.f = PushLocal(f, "Element")])

\* src/xmlElement.go OnElement
OnElement(m, ele) ==
    LET h == m.f.h
        ph == h.ph
        a == ele.attrs[h.ai]
        r == Atoi(a.value)
        pluralSeq == /\ Len(m.f.InPluralSequence) > 0
                     /\ m.f.InPluralSequence[Len(m.f.InPluralSequence)]
    IN
    CASE ph = "pre" -> [m EXCEPT !.f.h.e = NewElement, !.f.h.ph = "attr"]
      [] ph = "attr" /\ h.ai > Len(ele.attrs) ->
            [m EXCEPT !.f.h.e.Plural = @ \/ pluralSeq, !.f.h.ph = "tail"]
      [] ph = "attr" /\ h.ai <= Len(ele.attrs) ->
            CASE a.local = "ref" ->
                    CallGVT([m EXCEPT !.f.h.e.Name = a.value], a.value, "attrRet")
              [] a.local = "name" -> NextAttr([m EXCEPT !.f.h.e.Name = a.value])
              [] a.local = "type" -> CallGVT(m, a.value, "attrRet")
              [] a.local = "maxOccurs" ->
                    IF a.value # "unbounded" /\ r.err # NoErr THEN Fail(m, r.err)
                    ELSE IF a.value = "unbounded" \/ r.n > 1
                    THEN NextAttr([m EXCEPT !.f.h.e.Plural = TRUE])
                    ELSE NextAttr(m)
              [] a.local = "unbounded" ->
                    IF a.value # "0"
                    THEN NextAttr([m EXCEPT !.f.h.e.Plural = TRUE])
                    ELSE NextAttr(m)
              [] OTHER -> NextAttr(m)
      [] ph = "attrRet" ->
            IF m.f.g.ret.err # NoErr THEN Fail(m, m.f.g.ret.err)
            ELSE NextAttr([m EXCEPT !.f.h.e.Type = m.f.g.ret.vt])
      [] ph = "tail" ->
            IF h.e.Type = EmptyStr THEN CallGVT(m, h.e.Name, "tailRet")
            ELSE OnElementTail(m)
      [] ph = "tailRet" ->
            IF m.f.g.ret.err # NoErr THEN Fail(m, m.f.g.ret.err)
            ELSE LET m1 == [m EXCEPT !.f.h.e.Type = m.f.g.ret.vt] IN
                 OnElementTail([m1 EXCEPT !.f = PushLocal(m1.f, "Element")])

\* src/unnamed/part_008 OnAttribute
OnAttribute(m, ele) ==
    LET h == m.f.h
        ph == h.ph
        f == m.f
        a == ele.attrs[h.ai]
        c == Peek(f.ComplexType)
    IN
    CASE ph = "pre" ->
            [m EXCEPT !.f.h.e = [NewAttribute EXCEPT !.Optional = TRUE],
                      !.f.h.ph = "attr"]
      [] ph = "attr" /\ h.ai > Len(ele.attrs) ->
            IF StackLen(f.ComplexType) > 0
            THEN Done([m EXCEPT !.f = Store(f, c,
                    [Deref(f, c) EXCEPT !.Attributes = Append(@, h.e)])])
            ELSE Done([m EXCEPT !.f = PushLocal(f, "Attribute")])
      [] ph = "attr" /\ h.ai <= Len(ele.attrs) ->
            CASE a.local = "ref" ->
                    CallGVT([m EXCEPT !.f.h.e.Name = a.value], a.value, "attrRet")
              [] a.local = "name" -> NextAttr([m EXCEPT !.f.h.e.Name = a.value])
              [] a.local = "type" -> CallGVT(m, a.value, "attrRet")
              [] a.local = "use" ->
                    IF a.value = "required"
                    THEN NextAttr([m EXCEPT !.f.h.e.Optional = FALSE])
                    ELSE NextAttr(m)
              [] OTHER -> NextAttr(m)
      [] ph = "attrRet" ->
            IF m.f.g.ret.err # NoErr THEN Fail(m, m.f.g.ret.err)
            ELSE NextAttr([m EXCEPT !.f.h.e.Type = m.f.g.ret.vt])

\* src/xmlGroup.go inGroups
inGroups(group, groups) == \E i \in 1..Len(groups) : groups[i].Name = group.Name

\* src/xmlGroup.go OnGroup
OnGroup(m, ele) ==
    LET h == m.f.h
        ph == h.ph
        f == m.f
        a == ele.attrs[h.ai]
        c == Peek(f.ComplexType)
        g == Peek(f.Group)
    IN
    CASE ph = "pre" -> [m EXCEPT !.f.h.e = NewGroup, !.f.h.ph = "attr"]
      [] ph = "attr" /\ h.ai > Len(ele.attrs) ->
            IF StackLen(f.ComplexType) = 0
            THEN IF f.InGroup = 0
                 THEN Done([m EXCEPT !.f =
                        [PushLocal(f, "Group") EXCEPT
                            !.InGroup = @ + 1, !.CurrentEle = f.InElement]])
                 ELSE IF f.InGroup > 0
                 THEN IF g = 0 THEN Panic([m EXCEPT !.f.InGroup = @ + 1])
                      ELSE Done([m EXCEPT !.f =
                            [Store(f, g, [Deref(f, g) EXCEPT
                                            !.Groups = Append(@, h.e)])
                                EXCEPT !.InGroup = @ + 1]])
                 ELSE Done(m)
            ELSE IF ~inGroups(h.e, Deref(f, c).Groups)
                 THEN Done([m EXCEPT !.f = Store(f, c,
                        [Deref(f, c) EXCEPT !.Groups = Append(@, h.e)])])
                 ELSE Done(m)
      [] ph = "attr" /\ h.ai <= Len(ele.attrs) ->
            CASE a.local = "name" -> NextAttr([m EXCEPT !.f.h.e.Name = a.value])
              [] a.local = "ref" ->
                    CallGVT([m EXCEPT !.f.h.e.Name = a.value], a.value, "attrRet")
              [] a.local = "maxOccurs" ->
                    IF a.value # "0"
                    THEN NextAttr([m EXCEPT !.f.h.e.Plural = TRUE])
                    ELSE NextAttr(m)
              [] OTHER -> NextAttr(m)
      [] ph = "attrRet" ->
            IF m.f.g.ret.err # NoErr THEN Fail(m, m.f.g.ret.err)
            ELSE NextAttr([m EXCEPT !.f.h.e.Ref = m.f.g.ret.vt])

\* src/unnamed/part_009 OnAttributeGroup
OnAttributeGroup(m, ele) ==
    LET h == m.f.h
        ph == h.ph
        f == m.f
        a == ele.attrs[h.ai]
        c == Peek(f.ComplexType)
    IN
    CASE ph = "pre" -> [m EXCEPT !.f.h.e = NewAttributeGroup, !.f.h.ph = "attr"]
      [] ph = "attr" /\ h.ai > Len(ele.attrs) ->
            IF StackLen(f.ComplexType) = 0
            THEN Done([m EXCEPT !.f =
                    [PushLocal(f, "AttributeGroup") EXCEPT
                        !.InAttributeGroup = TRUE, !.CurrentEle = f.InElement]])
            ELSE Done([m EXCEPT !.f = Store(f, c,
                    [Deref(f, c) EXCEPT !.AttributeGroup = Append(@, h.e)])])
      [] ph = "attr" /\ h.ai <= Len(ele.attrs) ->
            CASE a.local = "name" -> NextAttr([m EXCEPT !.f.h.e.Name = a.value])
              [] a.local = "ref" ->
                    CallGVT([m EXCEPT !.f.h.e.Name = a.value], a.value, "attrRet")
              [] OTHER -> NextAttr(m)
      [] ph = "attrRet" ->
            IF m.f.g.ret.err # NoErr THEN Fail(m, m.f.g.ret.err)
            ELSE NextAttr([m EXCEPT !.f.h.e.Ref = m.f.g.ret.vt])

\* src/unnamed/part_019 OnRestriction
OnRestriction(m, ele) ==
    LET h == m.f.h
        ph == h.ph
        f == m.f
        a == ele.attrs[h.ai]
        st == Peek(f.SimpleType)
        based == Store(f, st, [Deref(f, st) EXCEPT !.Base = f.g.ret.vt])
    IN
    CASE ph = "pre" -> [m EXCEPT !.f.h.ph = "attr"]
      [] ph = "attr" /\ h.ai > Len(ele.attrs) -> Done(m)
      [] ph = "attr" /\ h.ai <= Len(ele.attrs) ->
            IF a.local = "base" THEN CallGVT(m, a.value, "attrRet")
            ELSE NextAttr(m)
      [] ph = "attrRet" ->
            IF f.g.ret.err # NoErr THEN Fail(m, f.g.ret.err)
            ELSE IF st # 0 THEN CallGVT(m, f.g.ret.vt, "attrRet2")
            ELSE NextAttr(m)
      [] ph = "attrRet2" ->
            IF f.g.ret.err # NoErr THEN Fail([m EXCEPT !.f = based], f.g.ret.err)
            ELSE IF Deref(based, st).Name = EmptyStr
            THEN NextAttr([m EXCEPT !.f =
                    Store(based, st, [Deref(based, st) EXCEPT !.Name = a.value])])
            ELSE NextAttr([m EXCEPT !.f = based])

\* src/unnamed/part_011 OnExtension
OnExtension(m, ele) ==
    LET h == m.f.h
        ph == h.ph
        f == m.f
        a == ele.attrs[h.ai]
        ct == Peek(f.ComplexType)
        based == Store(f, ct, [Deref(f, ct) EXCEPT !.Base = f.g.ret.vt])
    IN
    CASE ph = "pre" -> [m EXCEPT !.f.h.ph = "attr"]
      [] ph = "attr" /\ h.ai > Len(ele.attrs) -> Done(m)
      [] ph = "attr" /\ h.ai <= Len(ele.attrs) ->
            IF a.local = "base" THEN CallGVT(m, a.value, "attrRet")
            ELSE NextAttr(m)
      [] ph = "attrRet" ->
            IF f.g.ret.err # NoErr THEN Fail(m, f.g.ret.err)
            ELSE IF ct # 0 THEN CallGVT(m, f.g.ret.vt, "attrRet2")
            ELSE NextAttr(m)
      [] ph = "attrRet2" ->
            IF f.g.ret.err # NoErr THEN Fail([m EXCEPT !.f = based], f.g.ret.err)
            ELSE IF Deref(based, ct).Name = EmptyStr
            THEN NextAttr([m EXCEPT !.f =
                    Store(based, ct, [Deref(based, ct) EXCEPT !.Name = a.value])])
            ELSE NextAttr([m EXCEPT !.f = based])

\* src/unnamed/part_011 EndExtension
EndExtension(m, ele) ==
    LET f == m.f
        ph == f.h.ph
        at == Peek(f.Attribute)
        typed == Store(f, at, [Deref(f, at) EXCEPT !.Type = f.g.ret.vt])
    IN
    CASE ph = "pre" ->
            IF StackLen(f.Attribute) > 0 /\ Peek(f.SimpleType) # 0
            THEN CallGVT([m EXCEPT !.f.SimpleType = PopRest(@)],
                         Deref(f, Peek(f.SimpleType)).Base, "tailRet")
            ELSE Done(m)
      [] ph = "tailRet" ->
            IF f.g.ret.err # NoErr THEN Fail([m EXCEPT !.f = typed], f.g.ret.err)
            ELSE Done([m EXCEPT !.f = [typed EXCEPT !.CurrentEle = ""]])

\* src/xmlUnion.go OnUnion (the value of memberTypes is the sequence
\* strings.Split gives; h.mi is the position of the inner loop)
OnUnion(m, ele) ==
    LET h == m.f.h
        ph == h.ph
        f == m.f
        a == ele.attrs[h.ai]
        st == Peek(f.SimpleType)
        memberType == a.value[h.mi]
    IN
    CASE ph = "pre" ->
            IF st = 0 THEN Done([m EXCEPT !.f.InUnion = TRUE])
            ELSE [m EXCEPT !.f = [Store(f, st, [Deref(f, st) EXCEPT
                                            !.Union = TRUE, !.MemberTypes = << >>])
                                    EXCEPT !.InUnion = TRUE, !.h.ph = "attr"]]
      [] ph = "attr" /\ h.ai > Len(ele.attrs) -> Done(m)
      [] ph = "attr" /\ h.ai <= Len(ele.attrs) ->
            IF a.local = "memberTypes" /\ h.mi <= Len(a.value)
            THEN CallGVT(m, memberType, "attrRet")
            ELSE NextAttr([m EXCEPT !.f.h.mi = 1])
      [] ph = "attrRet" ->
            LET put == Store(f, st, [Deref(f, st) EXCEPT !.MemberTypes =
                            MapPut(@, trimNSPrefix(memberType), f.g.ret.vt)])
            IN  IF f.g.ret.err # NoErr THEN Fail([m EXCEPT !.f = put], f.g.ret.err)
                ELSE [m EXCEPT !.f = [put EXCEPT !.h.mi = h.mi + 1, !.h.ph = "attr"]]

\* src/unnamed/part_015 OnEnumeration
RECURSIVE OnEnumerationFrom(_, _, _)
OnEnumerationFrom(f, attrs, i) ==
    IF i > Len(attrs) THEN f
    ELSE LET st == Peek(f.SimpleType) IN
         OnEnumerationFrom(
            IF attrs[i].local = "value" /\ st # 0
            THEN Store(f, st, [Deref(f, st) EXCEPT !.Enum = Append(@, attrs[i].value)])
            ELSE f,
            attrs, i + 1)

OnEnumeration(m, ele) == Done([m EXCEPT !.f = OnEnumerationFrom(@, ele.attrs, 1)])

\* src/unnamed/part_015 EndEnumeration
EndEnumeration(m, ele) ==
    LET f == m.f
        ph == f.h.ph
        base == Deref(f, Peek(f.SimpleType)).Base
        at == Peek(f.Attribute)
        el == Peek(f.Element)
    IN
    CASE ph = "pre" ->
            IF StackLen(f.Attribute) > 0 /\ Peek(f.SimpleType) # 0
            THEN CallGVT(m, base, "attrRet")
            ELSE [m EXCEPT !.f.h.ph = "tail"]
      [] ph = "attrRet" ->
            LET typed == Store(f, at, [Deref(f, at) EXCEPT !.Type = f.g.ret.vt]) IN
            IF f.g.ret.err # NoErr THEN Fail([m EXCEPT !.f = typed], f.g.ret.err)
            ELSE [m EXCEPT !.f = [typed EXCEPT !.CurrentEle = "", !.h.ph = "tail"]]
      [] ph = "tail" ->
            IF StackLen(f.SimpleType) > 0 /\ StackLen(f.Element) > 0
            THEN CallGVT(m, base, "tailRet")
            ELSE Done(m)
      [] ph = "tailRet" ->
            LET typed == Store(f, el, [Deref(f, el) EXCEPT !.Type = f.g.ret.vt]) IN
            IF f.g.ret.err # NoErr THEN Fail([m EXCEPT !.f = typed], f.g.ret.err)
            ELSE Done([m EXCEPT !.f = [typed EXCEPT !.CurrentEle = ""]])

\* src/unnamed/part_019:93-98
EndRestrictionTail(m) ==
    LET f == m.f
        c == Peek(f.ComplexType)
        ct == Deref(f, c)
    IN  IF ~Empty(f.Element) /\ ~Empty(f.ComplexType) /\ Len(ct.Elements) > 0
        THEN Done([m EXCEPT !.f = Store(f, c,
                [ct EXCEPT !.Elements[Len(ct.Elements)] = Deref(f, Peek(f.Element))])])
        ELSE Done(m)

\* src/unnamed/part_019 EndRestriction
EndRestriction(m, ele) ==
    LET f == m.f
        ph == f.h.ph
        at == Peek(f.Attribute)
        typed == Store(f, at, [Deref(f, at) EXCEPT !.Type = f.g.ret.vt])
    IN
    CASE ph = "pre" ->
            IF StackLen(f.Attribute) > 0 /\ Peek(f.SimpleType) # 0
            THEN CallGVT([m EXCEPT !.f.SimpleType = PopRest(@)],
                         Deref(f, Peek(f.SimpleType)).Base, "tailRet")
            ELSE EndRestrictionTail(m)
      [] ph = "tailRet" ->
            IF f.g.ret.err # NoErr THEN Fail([m EXCEPT !.f = typed], f.g.ret.err)
            ELSE EndRestrictionTail([m EXCEPT !.f = [typed EXCEPT !.CurrentEle = ""]])

\* src/unnamed/part_012 OnChoice: the plurality and the error the loop over
\* the attributes leaves
RECURSIVE choicePlural(_, _, _)
choicePlural(attrs, i, plural) ==
    IF i > Len(attrs) THEN [Plural |-> plural, err |-> NoErr]
    ELSE IF attrs[i].local = "maxOccurs"
    THEN LET r == Atoi(attrs[i].value) IN
         IF attrs[i].value # "unbounded" /\ r.err # NoErr
         THEN [Plural |-> plural, err |-> r.err]
         ELSE choicePlural(attrs, i + 1,
                           attrs[i].value = "unbounded" \/ r.n > 1)
    ELSE choicePlural(attrs, i + 1, plural)

OnChoice_NoInherit(m, ele) ==
    LET c == choicePlural(ele.attrs, 1, FALSE)
    IN  IF c.err # NoErr THEN Fail(m, c.err)
        ELSE Done([m EXCEPT !.f.Choice = Append(@, c.Plural)])

\* src/unnamed/part_012 OnChoice (the stack holds each choice's Plural)
OnChoice(m, ele) ==
    LET c == choicePlural(ele.attrs, 1, FALSE)
        parent == Len(m.f.Choice) > 0 /\ m.f.Choice[Len(m.f.Choice)]
    IN  IF c.err # NoErr THEN Fail(m, c.err)
        ELSE Done([m EXCEPT !.f.Choice = Append(@, c.Plural \/ parent)])

\* src/unnamed/part_018 OnCharData (ele = "": the text is white space only)
OnCharData(m, ele) ==
    LET f == m.f
        ag == Peek(f.AttributeGroup)
        el == Peek(f.Element)
        at == Peek(f.Attribute)
        st == Peek(f.SimpleType)
        ct == Peek(f.ComplexType)
        SetDoc(r) == Done([m EXCEPT !.f = Store(f, r, [Deref(f, r) EXCEPT !.Doc = ele])])
    IN
    IF ele = "" THEN Done(m)
    ELSE IF f.InAttributeGroup /\ ag # 0 THEN SetDoc(ag)
    ELSE IF f.InElement # "" /\ el # 0 THEN SetDoc(el)
    ELSE IF StackLen(f.Attribute) > 0 THEN SetDoc(at)
    ELSE IF f.CurrentEle = "simpleType" /\ st # 0 THEN SetDoc(st)
    ELSE IF f.CurrentEle = "complexType" /\ ct # 0
    THEN LET l == Len(Deref(f, ct).Attributes) IN
         IF l > 0
         THEN Done([m EXCEPT !.f = Store(f, ct,
                    [Deref(f, ct) EXCEPT !.Attributes[l].Doc = ele])])
         ELSE SetDoc(ct)
    ELSE Done(m)

(***************************************************************************)
(* Dispatch: src/parser.go:108-126 and src/utils.go callFuncByName         *)
(***************************************************************************)
\* src/utils.go MakeFirstUpperCase, on the local names that occur in the
\* documents of the model (a name that is not listed starts with an
\* upper-case letter and is returned as it is)
MakeFirstUpperCase(s) ==
    CASE s = "schema" -> "Schema"
      [] s = "import" -> "Import"
      [] s = "include" -> "Include"
      [] s = "simpleType" -> "SimpleType"
      [] s = "complexType" -> "ComplexType"
      [] s = "element" -> "Element"
      [] s = "attribute" -> "Attribute"
      [] s = "group" -> "Group"
      [] s = "attributeGroup" -> "AttributeGroup"
      [] s = "restriction" -> "Restriction"
      [] s = "extension" -> "Extension"
      [] s = "sequence" -> "Sequence"
      [] s = "choice" -> "Choice"
      [] s = "union" -> "Union"
      [] s = "enumeration" -> "Enumeration"
      [] s = "list" -> "List"
      [] s = "pattern" -> "Pattern"
      [] s = "maxLength" -> "MaxLength"
      [] s = "annotation" -> "Annotation"
      [] s = "documentation" -> "Documentation"
      [] s = "simpleContent" -> "SimpleContent"
      [] s = "charData" -> "CharData"
      [] s = "t" -> "T"
      [] OTHER -> s

\* callFuncByName(opt, "On"+name, ...): a name without a method is a no-op;
\* OnCharData takes a string, so reflect's Call panics when it is handed the
\* xml.StartElement of a start tag (src/utils.go:199-201)
CallOn(m, ele) ==
    LET name == MakeFirstUpperCase(ele.name) IN
    CASE name = "Schema" -> OnSchema(m, ele)
      [] name = "Import" -> OnImport(m, ele)
      [] name = "Include" -> OnInclude(m, ele)
      [] name = "SimpleType" -> OnSimpleType(m, ele)
      [] name = "ComplexType" -> OnComplexType(m, ele)
      [] name = "Element" -> OnElement(m, ele)
      [] name = "Attribute" -> OnAttribute(m, ele)
      [] name = "Group" -> OnGroup(m, ele)
      [] name = "AttributeGroup" -> OnAttributeGroup(m, ele)
      [] name = "Restriction" -> OnRestriction(m, ele)
      [] name = "Extension" -> OnExtension(m, ele)
      [] name = "Sequence" -> OnSequence(m, ele)
      [] name = "Choice" -> OnChoice(m, ele)
      [] name = "Union" -> OnUnion(m, ele)
      [] name = "Enumeration" -> OnEnumeration(m, ele)
      [] name = "CharData" -> Panic(m)
      [] OTHER -> Done(m)

\* callFuncByName(opt, "End"+name, ...)
CallEnd(m, ele) ==
    LET name == MakeFirstUpperCase(ele.name) IN
    CASE name = "SimpleType" -> EndSimpleType(m, ele)
      [] name = "ComplexType" -> EndComplexType(m, ele)
      [] name = "Element" -> EndElement(m, ele)
      [] name = "Attribute" -> EndAttribute(m, ele)
      [] name = "Group" -> EndGroup(m, ele)
      [] name = "AttributeGroup" -> EndAttributeGroup(m, ele)
      [] name = "Restriction" -> EndRestriction(m, ele)
      [] name = "Extension" -> EndExtension(m, ele)
      [] name = "Sequence" -> EndSequence(m, ele)
      [] name = "Choice" -> EndChoice(m, ele)
      [] name = "Union" -> EndUnion(m, ele)
      [] name = "Enumeration" -> EndEnumeration(m, ele)
      [] OTHER -> Done(m)

(***************************************************************************)
(* Parse: src/parser.go:64-152                                             *)
(***************************************************************************)
\* one step of the handler of the token being dispatched
HStep(m) ==
    LET tok == CurTok(m.f) IN
    CASE tok.t = "start" -> CallOn(m, tok)
      [] tok.t = "end" -> CallEnd(m, tok)
      [] tok.t = "chardata" -> OnCharData(m, tok.text)

HandlerFailed_Ignored(err) == FALSE

\* src/parser.go:113, :119, :123: if err = callFuncByName(...); err != nil
HandlerFailed(err) == err # NoErr

\* src/parser.go:113-125: the handler returned; Parse returns its error or
\* goes on with the next token (failedAt, failedErr: what failed first)
AfterHandler(m) ==
    LET f == m.f
        failedNow == f.h.err # NoErr /\ f.failedAt = 0
        f1 == [f EXCEPT !.err = f.h.err, !.h = NoHandler,
                        !.failedAt = IF failedNow THEN f.pos ELSE @,
                        !.failedErr = IF failedNow THEN f.h.err ELSE @]
    IN  IF HandlerFailed(f.h.err) THEN [m EXCEPT !.f = [f1 EXCEPT !.pc = "ret"]]
        ELSE [m EXCEPT !.f = [f1 EXCEPT !.pc = "loop", !.pos = @ + 1]]

\* the parser runs until its Parse returns, panics, reaches the next token,
\* or needs the result of a nested Parse
RECURSIVE Run(_)
Run(m) ==
    IF m.f.pc # "run" THEN m
    ELSE IF m.f.g.on THEN Run(GetValueType(m))
    ELSE IF m.f.h.ph = "done" THEN AfterHandler(m)
    ELSE IF m.f.h.ph = "panic" THEN [m EXCEPT !.f.pc = "panic"]
    ELSE Run(HStep(m))

DirResult_Error(path) == <<"is a directory", path>>

\* src/parser.go:71-73 if fi.IsDir() { return }: err is the nil os.Stat left
DirResult(path) == NoErr

\* src/parser.go:64-84: Parse up to its token loop; os.Open succeeds on what
\* os.Stat found
ParseEnter(FilePath, Extract, pfl, pfm, starts) ==
    LET fi == Stat(FilePath)
        f == NewFrame(FilePath, Extract)
    IN  IF fi.err # NoErr
        THEN [f |-> [f EXCEPT !.pc = "ret", !.err = fi.err],
              pfl |-> pfl, pfm |-> pfm, starts |-> starts]
        ELSE IF fi.isDir
        THEN [f |-> [f EXCEPT !.pc = "ret", !.err = DirResult(FilePath)],
              pfl |-> pfl, pfm |-> pfm, starts |-> starts]
        ELSE IF ~Extract
        THEN [f |-> [f EXCEPT !.opened = TRUE],
              pfl |-> pfl \cup {FilePath},
              pfm |-> MapPut(pfm, FilePath, << >>),
              starts |-> Append(starts, FilePath)]
        ELSE [f |-> [f EXCEPT !.opened = TRUE],
              pfl |-> pfl, pfm |-> pfm, starts |-> starts]

\* Options.Hook is nil
NoHook == [on |-> "none", tag |-> "", err |-> FALSE]
\* the error a hook returns (src/parser_test.go:528, :601)
HookErr == <<"intentional error for testing">>

\* what the hook returns for a token: the hooks of src/parser_test.go pick
\* start tags by name (ComprehensiveHook, ErrorTestHook) or character data
\* that is not white space (CharDataErrorHook, CharDataSkipHook), and return
\* next = false with or without an error; the same for end tags
HookResult(hook, tok) ==
    LET hit == CASE hook.on = "start" -> tok.t = "start" /\ tok.name = hook.tag
                 [] hook.on = "end" -> tok.t = "end" /\ tok.name = hook.tag
                 [] hook.on = "chardata" -> tok.t = "chardata" /\ tok.text # ""
                 [] OTHER -> FALSE
    IN  IF hit THEN [next |-> FALSE, err |-> IF hook.err THEN HookErr ELSE NoErr]
        ELSE [next |-> TRUE, err |-> NoErr]

HookDispatch_ErrorSkips(f, f0, hr) ==
    IF ~hr.next \/ hr.err # NoErr THEN [f EXCEPT !.pos = @ + 1] ELSE f0

\* Parse calls the hook ahead of the default handler: an error of the hook is
\* returned at once, next = false skips the default handler, and otherwise
\* the default handler runs (f: the parser at the token, f0: the parser
\* entering the default handler)
HookDispatch(f, f0, hr) ==
    IF hr.err # NoErr
    THEN [f EXCEPT !.err = hr.err, !.pc = "ret",
                   !.failedAt = IF @ = 0 THEN f.pos ELSE @,
                   !.failedErr = IF f.failedAt = 0 THEN hr.err ELSE @]
    ELSE IF ~hr.next THEN [f EXCEPT !.pos = @ + 1]
    ELSE f0

\* the machine of the running parser: the top of the call stack
Top == stack[Len(stack)]
Machine(f) ==
    [f |-> f, inc |-> IncludeMap, lns |-> LocalNameNSMap,
     nsl |-> NSSchemaLocationMap, pfm |-> ParseFileMap,
     res |-> [err |-> NoErr, tree |-> << >>], log |-> << >>]

\* the parser's step is over: its frame and the shared maps are written back
Commit(m) ==
    /\ stack' = [stack EXCEPT ![Len(stack)] = m.f]
    /\ IncludeMap' = m.inc
    /\ LocalNameNSMap' = m.lns
    /\ NSSchemaLocationMap' = m.nsl
    /\ gvtLog' = m.log

\* what Parse leaves when it returns
Returned(f, depth) ==
    [FilePath |-> f.FilePath, Extract |-> f.Extract, err |-> f.err,
     ProtoTree |-> Tree(f), opened |-> f.opened, pos |-> f.pos,
     failedAt |-> f.failedAt, failedErr |-> f.failedErr,
     generated |-> f.generated, depth |-> depth,
     stacks |-> [SimpleType |-> Nodes(f, f.SimpleType),
                 ComplexType |-> Nodes(f, f.ComplexType),
                 Element |-> Nodes(f, f.Element),
                 Attribute |-> Nodes(f, f.Attribute),
                 Group |-> Nodes(f, f.Group),
                 AttributeGroup |-> Nodes(f, f.AttributeGroup),
                 Choice |-> f.Choice]]

\* a nested parser is created and its Parse entered (src/parser.go:183-195,
\* :210-222, :231-243)
Nest(FilePath, Extract, parent) ==
    LET p == ParseEnter(FilePath, Extract, ParseFileList, ParseFileMap, fullStarts) IN
    /\ stack' = [stack EXCEPT ![Len(stack)] = parent] \o <<p.f>>
    /\ ParseFileList' = p.pfl
    /\ ParseFileMap' = p.pfm
    /\ fullStarts' = p.starts
    /\ gvtLog' = << >>
    /\ UNCHANGED <<cfg, firstRun, lifo, gens, IncludeMap, LocalNameNSMap, NSSchemaLocationMap,
                   emitted, lastRet, status>>

(***************************************************************************)
(* The runs: one top-level Parse of cfg.top                                *)
(***************************************************************************)
\* the sequences over S of length at most n
RECURSIVE SeqsUpTo(_, _)
SeqsUpTo(S, n) ==
    IF n = 0 THEN {<< >>}
    ELSE LET shorter == SeqsUpTo(S, n - 1) IN
         shorter \cup {Append(q, x) : q \in shorter, x \in S}

Config(top, extract, lang, linkA, declsA, docB) ==
    [top |-> top, extract |-> extract, lang |-> lang, linkA |-> linkA,
     declsA |-> declsA, docB |-> docB, hook |-> NoHook,
     base |-> Q("xs", "int"), cut |-> 0]

\* one file, every language column, the declarations of type resolution
LocalRuns ==
    {Config(<<"a.xsd">>, x, l, "none", d, "absent") :
        x \in BOOLEAN, l \in {"Go", "TypeScript", "Java"},
        d \in SeqsUpTo({"shadow", "localT", "useBuiltin", "useBare", "refLocal"},
                       MaxDecls)}

\* a.xsd with an import or an include, b.xsd in each of its forms
LinkedRuns ==
    {Config(<<"a.xsd">>, FALSE, l, k, d, b) :
        l \in {"Go", "TypeScript"},
        k \in {"importB", "importURL", "includeB", "includeURL"},
        b \in {"typeT", "attrT", "bad", "cycle", "inclA", "inclBare", "absent"},
        d \in SeqsUpTo({"refB", "refLocal", "localT"}, MaxDecls)}

\* the declarations that exercise the walker's stacks
WalkerRuns ==
    {Config(<<"a.xsd">>, FALSE, "Go", "none", d, "absent") :
        d \in SeqsUpTo({"grpUntyped", "grpAnon", "ctype", "ctypeUntyped",
                        "grpTyped", "ctAnon", "attrT", "useBuiltin", "badOcc",
                        "seqBad", "choiceBad", "choicePl", "elemAnon",
                        "ctStale", "choiceTwo"},
                       MaxDecls)}

\* the declarations of simple types: unions and enumerations
TypeRuns ==
    {Config(<<"a.xsd">>, FALSE, l, "none", d, "absent") :
        l \in {"Go", "TypeScript"},
        d \in SeqsUpTo({"localL", "unionU", "enumE", "elemEnum"}, MaxDecls)}

\* the declarations that open one construct inside another
NestRuns ==
    {Config(<<"a.xsd">>, FALSE, "Go", "none", d, "absent") :
        d \in SeqsUpTo({"ctInner", "unionNest", "attrUnion", "attrUnion2",
                        "ctDup", "elemDoc", "attrDoc", "elemEnum",
                        "seqOuter"},
                       MaxDecls)}

\* a restriction and an extension of each builtin datatype, for each
\* language of the table
BaseRuns ==
    {[Config(<<"a.xsd">>, FALSE, l, "none", d, "absent") EXCEPT
            !.base = <<"xs">> \o k] :
        l \in {"Go", "TypeScript", "C", "Java", "Rust"},
        k \in DOMAIN BuildInTypes,
        d \in {<<"baseT">>, <<"extT">>}}

\* one file that is damaged after its first tokens
CutRuns ==
    {[Config(<<"a.xsd">>, x, "Go", "none", d, "absent") EXCEPT !.cut = n] :
        x \in BOOLEAN, n \in 1..MaxCut,
        d \in SeqsUpTo({"localT", "useBuiltin"}, MaxDecls)}

\* tags that are not XSD declarations the walker handles
TagRuns ==
    {Config(<<"a.xsd">>, x, "Go", "none", d, "absent") :
        x \in BOOLEAN,
        d \in SeqsUpTo({"tagCharData", "tagElement", "tagAppinfo", "localT"},
                       MaxDecls)}

\* the forms of the top-level path: uncleaned, a directory, a missing file
PathRuns ==
    {Config(t, x, "Go", k, d, "cycle") :
        t \in {<<".", "a.xsd">>, <<".">>, <<"missing.xsd">>},
        x \in BOOLEAN, k \in {"none", "importB"},
        d \in SeqsUpTo({"refB", "localT"}, MaxDecls)}

\* one file parsed with a hook that picks one kind of token
HookRuns ==
    {[Config(<<"a.xsd">>, FALSE, "Go", "none", d, "absent") EXCEPT
            !.hook = [on |-> o, tag |-> IF o = "chardata" THEN "" ELSE t,
                      err |-> e]] :
        o \in {"start", "end", "chardata"},
        t \in {"element", "simpleType", "annotation"},
        e \in BOOLEAN,
        d \in SeqsUpTo({"docT", "elemAnon", "localT"}, MaxDecls)}

\* a.xsd linked to a b.xsd whose root binds prefix a differently
RebindRuns ==
    {Config(<<"a.xsd">>, FALSE, "Go", k, d, "rebind") :
        k \in {"importB", "includeB"},
        d \in SeqsUpTo({"refB", "refLocal"}, MaxDecls)}

\* a.xsd whose import tag carries schemaLocation ahead of namespace
OrderRuns ==
    {Config(<<"a.xsd">>, FALSE, "Go", "importBRev", d, b) :
        b \in {"typeT", "absent"},
        d \in SeqsUpTo({"refB", "localT"}, MaxDecls)}

Configs ==
    LocalRuns \cup LinkedRuns \cup WalkerRuns \cup TypeRuns \cup PathRuns
    \cup HookRuns \cup NestRuns \cup BaseRuns \cup CutRuns \cup TagRuns
    \cup RebindRuns \cup OrderRuns

\* no Parse of cfg.top has returned to the caller yet
NoRun == [set |-> FALSE, err |-> NoErr, ProtoTree |-> << >>]

\* src/parser.go:140-146: the CodeGenerator Parse creates for a ProtoTree (the
\* names of its simpleTypes), with the position GenGo has reached
NewGenerator(tree) ==
    [ProtoTree |-> tree, i |-> 1, pc |-> "start", StructAST |-> {},
     Field |-> << >>, fieldName |-> "", n |-> 0]

\* two generators of two independent Parse runs, and the package-level
\* fieldNameCount they both use
NewGens(tree1, tree2) ==
    [fieldNameCount |-> << >>,
     run |-> <<NewGenerator(tree1), NewGenerator(tree2)>>]

\* no generator is at work
NoGens == NewGens(<< >>, << >>)

\* the three stacks after NewStack, no call made yet
NewLifo ==
    [list |-> << >>, linked |-> NewLinked, ref |-> << >>, op |-> "new",
     got |-> <<0, 0>>, want |-> 0, pushes |-> 0]

NoReturn ==
    [Returned(NewFrame(<< >>, FALSE), 0) EXCEPT !.depth = 0]

Init ==
    /\ cfg \in Configs
    /\ stack = << >>
    /\ IncludeMap = {}
    /\ LocalNameNSMap = << >>
    /\ NSSchemaLocationMap = << >>
    /\ ParseFileList = {}
    /\ ParseFileMap = << >>
    /\ emitted = << >>
    /\ fullStarts = << >>
    /\ gvtLog = << >>
    /\ lastRet = NoReturn
    /\ status = "idle"
    /\ firstRun = NoRun
    /\ lifo = NewLifo
    /\ gens = NoGens

\* the caller creates the parser and calls Parse (src/cmd/xgen/xgen.go)
TopParse ==
    /\ status = "idle"
    /\ LET p == ParseEnter(cfg.top, cfg.extract, ParseFileList, ParseFileMap,
                           fullStarts) IN
        /\ stack' = <<p.f>>
        /\ ParseFileList' = p.pfl
        /\ ParseFileMap' = p.pfm
        /\ fullStarts' = p.starts
    /\ status' = "running"
    /\ UNCHANGED <<cfg, firstRun, lifo, gens, IncludeMap, LocalNameNSMap, NSSchemaLocationMap,
                   emitted, gvtLog, lastRet>>

\* src/parser.go:103-126: the next token is read and its handler called
Dispatch ==
    /\ stack # << >>
    /\ Top.pc = "loop"
    /\ Top.pos <= Len(Tokens(Top.FilePath))
    /\ LET tok == CurTok(Top)
           f0 == [Top EXCEPT
                    !.InElement = IF tok.t = "start" THEN tok.name ELSE @,
                    !.h = [NoHandler EXCEPT
                            !.name = IF tok.t = "chardata" THEN "" ELSE tok.name,
                            !.ph = "pre"],
                    !.pc = "run"]
           \* the parsers GetValueType creates are given no hook
           \* (src/parser.go:183-194, :211-222, :232-243)
           hr == HookResult(IF Len(stack) = 1 THEN cfg.hook ELSE NoHook, tok)
       IN  Commit(Run(Machine(HookDispatch(Top, f0, hr))))
    /\ UNCHANGED <<cfg, firstRun, lifo, gens, ParseFileList, ParseFileMap, emitted, fullStarts,
                   lastRet, status>>

\* src/parser.go:103-106 and :132-151: the token is nil (the error Token
\* returns with it is dropped at :103); outside extract mode the cache is
\* written and the generator runs
Finish ==
    /\ stack # << >>
    /\ Top.pc = "loop"
    /\ Top.pos > Len(Tokens(Top.FilePath))
    /\ IF ~Top.Extract
       THEN /\ ParseFileList' = ParseFileList \cup {Top.FilePath}
            /\ ParseFileMap' = MapPut(ParseFileMap, Top.FilePath, Tree(Top))
            /\ emitted' = Append(emitted, [File |-> Top.FilePath,
                                           ProtoTree |-> Tree(Top)])
            /\ stack' = [stack EXCEPT ![Len(stack)] =
                            [Top EXCEPT !.pc = "ret", !.err = NoErr,
                                        !.generated = TRUE]]
       ELSE /\ stack' = [stack EXCEPT ![Len(stack)].pc = "ret"]
            /\ UNCHANGED <<ParseFileList, ParseFileMap, emitted>>
    /\ gvtLog' = << >>
    /\ UNCHANGED <<cfg, firstRun, lifo, gens, IncludeMap, LocalNameNSMap, NSSchemaLocationMap,
                   fullStarts, lastRet, status>>

\* Parse returns: to the GetValueType call that waits for it, or to the
\* caller of the top-level Parse
Return ==
    /\ stack # << >>
    /\ Top.pc = "ret"
    /\ lastRet' = Returned(Top, Len(stack))
    /\ IF Len(stack) = 1
       THEN /\ stack' = << >>
            /\ status' = IF Top.err = NoErr THEN "ok" ELSE "error"
            /\ gvtLog' = << >>
            /\ UNCHANGED <<IncludeMap, LocalNameNSMap, NSSchemaLocationMap>>
       ELSE LET parent == stack[Len(stack) - 1]
                stage == parent.g.stage
                p1 == [parent EXCEPT
                        !.pc = "run",
                        !.g.stage = CASE stage = "inc" -> "incRet"
                                      [] stage = "sibFull" -> "sibFullRet"
                                      [] stage = "sibExt" -> "sibExtRet"]
                m == Run([Machine(p1) EXCEPT
                            !.res = [err |-> Top.err, tree |-> Tree(Top)]])
            IN  /\ stack' = SubSeq(stack, 1, Len(stack) - 2) \o <<m.f>>
                /\ IncludeMap' = m.inc
                /\ LocalNameNSMap' = m.lns
                /\ NSSchemaLocationMap' = m.nsl
                /\ gvtLog' = m.log
                /\ status' = status
    /\ UNCHANGED <<cfg, firstRun, lifo, gens, ParseFileList, ParseFileMap, emitted, fullStarts>>

\* a runtime panic unwinds every Parse on the call stack
Crash ==
    /\ stack # << >>
    /\ Top.pc = "panic"
    /\ stack' = << >>
    /\ status' = "panic"
    /\ gvtLog' = << >>
    /\ UNCHANGED <<cfg, firstRun, lifo, gens, IncludeMap, LocalNameNSMap, NSSchemaLocationMap,
                   ParseFileList, ParseFileMap, emitted, fullStarts, lastRet>>

\* src/parser.go:182-195: the range over IncludeMap yields a key not yet
\* visited, and that file is parsed in extract mode
NestedInclude ==
    /\ stack # << >>
    /\ Top.pc = "call"
    /\ Top.g.stage = "inc"
    /\ \E include \in IncludeMap \ Top.g.seen :
        Nest(Join(FileDir(Top), include), TRUE,
             [Top EXCEPT !.g.seen = @ \cup {include}, !.g.nested = @ + 1])

\* src/parser.go:182: the range ends without yielding the keys that were
\* added to IncludeMap while it ran
IncludeStop ==
    /\ stack # << >>
    /\ Top.pc = "call"
    /\ Top.g.stage = "inc"
    /\ Top.g.must \subseteq Top.g.seen
    /\ Commit(Run(Machine([Top EXCEPT !.g.stage = "incEnd", !.pc = "run"])))
    /\ UNCHANGED <<cfg, firstRun, lifo, gens, ParseFileList, ParseFileMap, emitted, fullStarts,
                   lastRet, status>>

\* src/parser.go:210-222: the dependency is parsed in full mode
NestedFull ==
    /\ stack # << >>
    /\ Top.pc = "call"
    /\ Top.g.stage = "sibFull"
    /\ Nest(Top.g.xsdFile, FALSE, [Top EXCEPT !.g.nested = @ + 1])

\* src/parser.go:231-243: the dependency is parsed in extract mode
NestedExtract ==
    /\ stack # << >>
    /\ Top.pc = "call"
    /\ Top.g.stage = "sibExt"
    /\ Nest(Top.g.xsdFile, TRUE, [Top EXCEPT !.g.nested = @ + 1])

\* the caller keeps what the first Parse returned and creates a new parser
\* for the same file, with new maps (src/cmd/xgen/xgen.go:112-124)
ParseAgain ==
    /\ status \in {"ok", "error"}
    /\ ~firstRun.set
    /\ firstRun' = [set |-> TRUE, err |-> lastRet.err,
                    ProtoTree |-> lastRet.ProtoTree]
    /\ stack' = << >>
    /\ IncludeMap' = {}
    /\ LocalNameNSMap' = << >>
    /\ NSSchemaLocationMap' = << >>
    /\ ParseFileList' = {}
    /\ ParseFileMap' = << >>
    /\ emitted' = << >>
    /\ fullStarts' = << >>
    /\ gvtLog' = << >>
    /\ lastRet' = NoReturn
    /\ status' = "idle"
    /\ UNCHANGED <<cfg, lifo, gens>>

(***************************************************************************)
(* A Stack in isolation: the same calls made on the Stack of src/stack.go, *)
(* on the Stack of src/unnamed/part_020 and on a last-in-first-out         *)
(* sequence                                                                *)
(***************************************************************************)
\* stack.Push(v)
CallPush ==
    /\ lifo.pushes < MaxPushes
    /\ \E v \in 0..MaxValue :
        lifo' = [list |-> Push(lifo.list, v),
                 linked |-> LinkedPush(lifo.linked, v),
                 ref |-> Append(lifo.ref, v), op |-> "Push",
                 got |-> <<0, 0>>, want |-> 0, pushes |-> lifo.pushes + 1]

\* stack.Pop()
CallPop ==
    lifo' = [lifo EXCEPT
                !.list = PopRest(lifo.list),
                !.linked = LinkedPop(lifo.linked),
                !.ref = IF lifo.ref = << >> THEN << >>
                        ELSE SubSeq(lifo.ref, 1, Len(lifo.ref) - 1),
                !.op = "Pop",
                !.got = <<Peek(lifo.list), LinkedPopValue(lifo.linked)>>,
                !.want = IF lifo.ref = << >> THEN 0
                         ELSE lifo.ref[Len(lifo.ref)]]

\* stack.Peek()
CallPeek ==
    lifo' = [lifo EXCEPT
                !.op = "Peek",
                !.got = <<Peek(lifo.list), LinkedPeek(lifo.linked)>>,
                !.want = IF lifo.ref = << >> THEN 0
                         ELSE lifo.ref[Len(lifo.ref)]]

\* stack.Len()
CallLen ==
    lifo' = [lifo EXCEPT
                !.op = "Len",
                !.got = <<StackLen(lifo.list), LinkedLen(lifo.linked)>>,
                !.want = Len(lifo.ref)]

StackInit ==
    /\ cfg = Config(<<"a.xsd">>, FALSE, "Go", "none", << >>, "absent")
    /\ stack = << >>
    /\ IncludeMap = {}
    /\ LocalNameNSMap = << >>
    /\ NSSchemaLocationMap = << >>
    /\ ParseFileList = {}
    /\ ParseFileMap = << >>
    /\ emitted = << >>
    /\ fullStarts = << >>
    /\ gvtLog = << >>
    /\ lastRet = NoReturn
    /\ status = "idle"
    /\ firstRun = NoRun
    /\ lifo = NewLifo
    /\ gens = NoGens

StackNext ==
    /\ \/ CallPush
       \/ CallPop
       \/ CallPeek
       \/ CallLen
    /\ UNCHANGED <<cfg, stack, IncludeMap, LocalNameNSMap,
                   NSSchemaLocationMap, ParseFileList, ParseFileMap, emitted,
                   fullStarts, gvtLog, lastRet, status, firstRun, gens>>

StackSpec == StackInit /\ [][StackNext]_vars

(***************************************************************************)
(* Two code generators at work at once (src/unnamed/part_006)              *)
(***************************************************************************)
MaxTypes == 2
\* the names of the simpleTypes of the two schemas
TypeNames == {"T", "t", "U"}

\* fmt.Sprintf("%s%d", fieldName, count) at :111, or the bare name
Numbered(fieldName, count) ==
    IF count # 1 THEN <<fieldName, count>> ELSE <<fieldName>>

\* generator r after its run record is replaced
SetRun(r, g) == [gens.run EXCEPT ![r] = g]

\* GenGo :62: the package-level map is replaced by an empty one
GenGoStart(r) ==
    /\ gens.run[r].pc = "start"
    /\ gens' = [fieldNameCount |-> << >>,
                run |-> SetRun(r, [gens.run[r] EXCEPT !.pc = "loop"])]

\* GenGo :63-69 calling GoSimpleType :171-174: a type not yet in StructAST
\* is entered there and its field name is built (genGoFieldName :99-107)
GoSimpleType(r) ==
    LET g == gens.run[r] IN
    /\ g.pc = "loop"
    /\ g.i <= Len(g.ProtoTree)
    /\ gens' = [gens EXCEPT !.run = SetRun(r,
            IF g.ProtoTree[g.i] \in g.StructAST
            THEN [g EXCEPT !.i = @ + 1]
            ELSE [g EXCEPT !.StructAST = @ \cup {g.ProtoTree[g.i]},
                           !.fieldName = MakeFirstUpperCase(g.ProtoTree[g.i]),
                           !.pc = "read"])]

\* genGoFieldName :109, fieldNameCount[fieldName]++: the read
ReadCount(r) ==
    LET g == gens.run[r] IN
    /\ g.pc = "read"
    /\ gens' = [gens EXCEPT !.run = SetRun(r,
            [g EXCEPT !.n = MapGet(gens.fieldNameCount, g.fieldName, 0) + 1,
                      !.pc = "write"])]

\* genGoFieldName :109, fieldNameCount[fieldName]++: the write
WriteCount(r) ==
    LET g == gens.run[r] IN
    /\ g.pc = "write"
    /\ gens' = [fieldNameCount |-> MapPut(gens.fieldNameCount, g.fieldName, g.n),
                run |-> SetRun(r, [g EXCEPT !.pc = "name"])]

\* genGoFieldName :110-112 and GoSimpleType :175: the count is read again
\* and the declaration is added to gen.Field
AddField(r) ==
    LET g == gens.run[r] IN
    /\ g.pc = "name"
    /\ gens' = [gens EXCEPT !.run = SetRun(r,
            [g EXCEPT !.Field = Append(@, Numbered(g.fieldName,
                                MapGet(gens.fieldNameCount, g.fieldName, 0))),
                      !.i = @ + 1, !.pc = "loop"])]

\* GenGo :70-95: the ProtoTree is exhausted and the file is written
GenGoEnd(r) ==
    LET g == gens.run[r] IN
    /\ g.pc = "loop"
    /\ g.i > Len(g.ProtoTree)
    /\ gens' = [gens EXCEPT !.run = SetRun(r, [g EXCEPT !.pc = "done"])]

\* both goroutines write the same map at once (:109 in each): the Go runtime
\* may stop the process with "fatal error: concurrent map writes"
ConcurrentMapWrites ==
    /\ gens.run[1].pc = "write"
    /\ gens.run[2].pc = "write"
    /\ gens' = [gens EXCEPT !.run = [r \in {1, 2} |->
                                        [gens.run[r] EXCEPT !.pc = "fatal"]]]

GenInit ==
    /\ cfg = Config(<<"a.xsd">>, FALSE, "Go", "none", << >>, "absent")
    /\ stack = << >>
    /\ IncludeMap = {}
    /\ LocalNameNSMap = << >>
    /\ NSSchemaLocationMap = << >>
    /\ ParseFileList = {}
    /\ ParseFileMap = << >>
    /\ emitted = << >>
    /\ fullStarts = << >>
    /\ gvtLog = << >>
    /\ lastRet = NoReturn
    /\ status = "idle"
    /\ firstRun = NoRun
    /\ lifo = NewLifo
    /\ gens \in {NewGens(t1, t2) : t1, t2 \in SeqsUpTo(TypeNames, MaxTypes)}

GenNext ==
    /\ \/ \E r \in {1, 2} : GenGoStart(r)
       \/ \E r \in {1, 2} : GoSimpleType(r)
       \/ \E r \in {1, 2} : ReadCount(r)
       \/ \E r \in {1, 2} : WriteCount(r)
       \/ \E r \in {1, 2} : AddField(r)
       \/ \E r \in {1, 2} : GenGoEnd(r)
       \/ ConcurrentMapWrites
    /\ UNCHANGED <<cfg, stack, IncludeMap, LocalNameNSMap,
                   NSSchemaLocationMap, ParseFileList, ParseFileMap, emitted,
                   fullStarts, gvtLog, lastRet, status, firstRun, lifo>>

GenSpec == GenInit /\ [][GenNext]_vars

Next ==
    \/ TopParse
    \/ Dispatch
    \/ Finish
    \/ Return
    \/ Crash
    \/ NestedInclude
    \/ IncludeStop
    \/ NestedFull
    \/ NestedExtract
    \/ ParseAgain

Spec == Init /\ [][Next]_vars

(***************************************************************************)
(* Reading a document: what it declares, and where                         *)
(***************************************************************************)
\* the number of elements open when token i is read
Depth(toks, i) ==
    Cardinality({j \in 1..(i - 1) : toks[j].t = "start"})
    - Cardinality({j \in 1..(i - 1) : toks[j].t = "end"})

\* token i opens a named declaration directly under the schema element
TopDeclared(toks, i, tags) ==
    /\ toks[i].t = "start"
    /\ toks[i].name \in tags
    /\ Depth(toks, i) = 1
    /\ HasAttr(toks[i], "name")

\* token i opens a declaration inside the complexType or group that token j
\* opened
Inside(toks, i, j) ==
    /\ j < i
    /\ toks[j].t = "start"
    /\ toks[j].name \in {"complexType", "group"}
    /\ \A k \in j..(i - 1) : Depth(toks, k + 1) > Depth(toks, j)

NestedDeclared(toks, i, tags) ==
    /\ toks[i].t = "start"
    /\ toks[i].name \in tags
    /\ HasAttr(toks[i], "name")
    /\ \E j \in 1..(i - 1) : Inside(toks, i, j)

\* the kind of node a declaration's tag stands for
KindOf(tag) ==
    CASE tag = "simpleType" -> "SimpleType"
      [] tag = "complexType" -> "ComplexType"
      [] tag = "element" -> "Element"
      [] tag = "attribute" -> "Attribute"
      [] tag = "group" -> "Group"
      [] tag = "attributeGroup" -> "AttributeGroup"

DeclTags ==
    {"simpleType", "complexType", "element", "attribute", "group",
     "attributeGroup"}

\* the number of nodes of that kind and name in a tree
CountNodes(tree, kind, name) ==
    Cardinality({k \in 1..Len(tree) : tree[k].kind = kind /\ tree[k].Name = name})

\* the top-level Parse has returned
TopReturned == status \in {"ok", "error"}

\* the GetValueType calls that returned in the last step
Calls == {gvtLog[i] : i \in 1..Len(gvtLog)}

\* the key of the builtin table a reference names
IsBuiltin(value) == trimNSPrefix(value) \in DOMAIN BuildInTypes

(***************************************************************************)
(* Properties                                                              *)
(***************************************************************************)
\* C1: a reference whose unprefixed name is a key of the builtin table
\* resolves to the table's entry for the active language, without error,
\* without consulting the schema-location map and without a nested parse,
\* whatever the tree and the maps hold and in either mode.
C1_BuiltinFirst ==
    \A c \in Calls :
        IsBuiltin(c.value) =>
            /\ c.vt = BuildInTypes[trimNSPrefix(c.value)][supportLang(cfg.lang) + 1]
            /\ c.err = NoErr
            /\ c.nested = 0
            /\ ~c.consulted

\* C1 witness: in extract mode and another language than Go, a builtin name
\* is resolved while the tree holds a node of that very name
C1_Witness ==
    \E c \in Calls :
        /\ IsBuiltin(c.value)
        /\ c.shadow
        /\ c.extract
        /\ cfg.lang = "TypeScript"
        /\ c.vt = <<"string">>

\* C2: a GetValueType call on a non-empty reference that returns no error
\* returns a non-empty type.
C2_NeverEmpty ==
    \A c \in Calls :
        (c.value # EmptyStr /\ c.err = NoErr) => c.vt # EmptyStr

\* C3: when Parse has returned without error, each named declaration
\* directly under schema has its node of that kind and name in the
\* ProtoTree, once per declaration.
C3_TopLevelDeclared ==
    (status = "ok" /\ lastRet.opened) =>
        LET toks == Tokens(cfg.top)
            tree == lastRet.ProtoTree
            decls == {i \in 1..Len(toks) : TopDeclared(toks, i, DeclTags)}
        IN  \A i \in decls :
                CountNodes(tree, KindOf(toks[i].name), AttrValue(toks[i], "name"))
                = Cardinality({j \in decls :
                    /\ toks[j].name = toks[i].name
                    /\ AttrValue(toks[j], "name") = AttrValue(toks[i], "name")})

\* C4: when Parse has returned without error, no element or attribute that
\* is declared only inside a complexType or a group is an entry of the
\* ProtoTree.
C4_NestedNotTopLevel ==
    (status = "ok" /\ lastRet.opened) =>
        LET toks == Tokens(cfg.top)
            tree == lastRet.ProtoTree
            tags == {"element", "attribute"}
        IN  \A i \in 1..Len(toks) :
                (/\ NestedDeclared(toks, i, tags)
                 /\ \A j \in 1..Len(toks) :
                        TopDeclared(toks, j, tags) =>
                            AttrValue(toks[j], "name") # AttrValue(toks[i], "name"))
                => CountNodes(tree, KindOf(toks[i].name),
                              AttrValue(toks[i], "name")) = 0

\* the files of the file system
Files == {p \in DOMAIN FS : ~FS[p].isDir}
\* the full-mode parses in progress
FullDepth == Cardinality({i \in 1..Len(stack) : ~stack[i].Extract /\ stack[i].opened})

\* C5: the depth of nested full-mode parses never exceeds the number of
\* distinct files.
C5_FullDepthBounded == FullDepth <= Cardinality(Files)

\* C6: no file is parsed in full mode twice, and none is emitted twice,
\* within one run.
C6_FullParseOnce ==
    /\ \A i, j \in 1..Len(fullStarts) :
            Clean(fullStarts[i]) = Clean(fullStarts[j]) => i = j
    /\ \A i, j \in 1..Len(emitted) :
            Clean(emitted[i].File) = Clean(emitted[j].File) => i = j

\* a step taken while an extract-mode Parse runs, or the step that enters one
ExtractStep ==
    \/ stack # << >> /\ Top.Extract
    \/ /\ Len(stack') = Len(stack) + 1
       /\ stack'[Len(stack')].Extract

C9_NestedFailurePropagates ==
    \A c \in Calls : c.failed => c.err # NoErr

\* the top-level path names a directory
TopIsDirectory == Stat(cfg.top).err = NoErr /\ Stat(cfg.top).isDir

MalformedMaxOccurs(tok) ==
    /\ tok.t = "start"
    /\ tok.name \in {"element", "choice", "sequence"}
    /\ \E i \in 1..Len(tok.attrs) :
        /\ tok.attrs[i].local = "maxOccurs"
        /\ tok.attrs[i].value # "unbounded"
        /\ Atoi(tok.attrs[i].value).err # NoErr

\* C11: Parse never goes past an element, choice or sequence start tag with
\* a malformed maxOccurs: the handler of that tag fails and Parse returns.
C11_MalformedMaxOccursAborts ==
    /\ \A n \in 1..Len(stack) :
        \A i \in 1..(stack[n].pos - 1) :
            ~MalformedMaxOccurs(Tokens(stack[n].FilePath)[i])
    /\ lastRet.opened =>
        \A i \in 1..(lastRet.pos - 1) :
            ~MalformedMaxOccurs(Tokens(lastRet.FilePath)[i])

\* the nodes of a tree of that kind and name
NodesNamed(tree, kind, name) ==
    {tree[k] : k \in {i \in 1..Len(tree) :
                        tree[i].kind = kind /\ tree[i].Name = name}}

\* declaration id occurs in decls, and declaration before occurs ahead of
\* each of its occurrences
Precedes(decls, before, id) ==
    /\ \E i \in 1..Len(decls) : decls[i] = id
    /\ \A i \in 1..Len(decls) :
        decls[i] = id => \E j \in 1..(i - 1) : decls[j] = before

\* the Type of an element whose type is a restriction of xs:int
IntRestrictionType == BuildInTypes[<<"int">>][supportLang(cfg.lang) + 1]

C13_UnionMembersResolved ==
    (status = "ok" /\ cfg \in TypeRuns
        /\ NodesNamed(lastRet.ProtoTree, "SimpleType", N("L")) # {}) =>
        \A u \in NodesNamed(lastRet.ProtoTree, "SimpleType", N("U")) :
            /\ u.Union
            /\ DOMAIN u.MemberTypes = {<<"string">>, <<"L">>}
            /\ u.MemberTypes[<<"string">>] = getBuildInTypeByLang(<<"string">>, cfg.lang).buildType
            /\ \A l \in NodesNamed(lastRet.ProtoTree, "SimpleType", N("L")) :
                    u.MemberTypes[<<"L">>] = l.Base

\* C14: the ProtoTree a parse of a document of one declaration returns has
\* no two nodes of the same Name.
C14_NamesUnique ==
    (status = "ok" /\ Len(cfg.declsA) = 1) =>
        \A i, j \in 1..Len(lastRet.ProtoTree) :
            lastRet.ProtoTree[i].Name = lastRet.ProtoTree[j].Name => i = j

\* the plural entries of the Elements lists of the ComplexTypes of frame f,
\* each as <<reference, index>>
PluralEntries(f) ==
    UNION {{<<r, k>> : k \in {i \in 1..Len(f.heap[r].Elements) :
                                f.heap[r].Elements[i].Plural}} :
            r \in {x \in 1..Len(f.heap) : f.heap[x].kind = "ComplexType"}}

\* C15: an entry of a ComplexType's Elements list that is plural stays plural
\* through every later handler of the same parse.
C15_PluralStaysPlural ==
    [][\A n \in 1..Len(stack) :
        (n <= Len(stack') /\ stack'[n].FilePath = stack[n].FilePath
            /\ stack'[n].Extract = stack[n].Extract /\ stack'[n].pos >= stack[n].pos) =>
            PluralEntries(stack[n]) \subseteq PluralEntries(stack'[n])]_vars

\* the start tag that encloses token i (0 at the document's root)
Parent(toks, i) ==
    LET up == {j \in 1..(i - 1) :
                /\ toks[j].t = "start"
                /\ Depth(toks, j) = Depth(toks, i) - 1
                /\ \A k \in (j + 1)..(i - 1) : Depth(toks, k) > Depth(toks, j)}
    IN  IF up = {} THEN 0 ELSE CHOOSE j \in up : TRUE

\* token j opens a choice that is plural by its own maxOccurs, or is nested
\* in a choice that is
RECURSIVE PluralChoice(_, _)
PluralChoice(toks, j) ==
    /\ j > 0
    /\ toks[j].t = "start"
    /\ toks[j].name = "choice"
    /\ \/ \E a \in 1..Len(toks[j].attrs) :
            /\ toks[j].attrs[a].local = "maxOccurs"
            /\ \/ toks[j].attrs[a].value = "unbounded"
               \/ toks[j].attrs[a].value \in {"2", "5"}
       \/ PluralChoice(toks, Parent(toks, j))

\* the names of the elements that are direct children of a plural choice
PluralChoiceChildren(toks) ==
    {AttrValue(toks[i], "name") : i \in {k \in 1..Len(toks) :
        /\ toks[k].t = "start"
        /\ toks[k].name = "element"
        /\ HasAttr(toks[k], "name")
        /\ PluralChoice(toks, Parent(toks, k))}}

\* the entries of the Elements lists of the ComplexTypes and Groups among nodes
ElementEntries(nodes) ==
    UNION {{nodes[r].Elements[k] : k \in 1..Len(nodes[r].Elements)} :
            r \in {x \in 1..Len(nodes) : nodes[x].kind \in {"ComplexType", "Group"}}}

\* C16: every entry recorded for an element that is a direct child of a plural
\* choice, or of a choice nested in one, has Plural = TRUE: while its file is
\* parsed and in the tree the parse returns.
C16_ChoiceChildrenPlural ==
    /\ \A n \in 1..Len(stack) :
        \A e \in ElementEntries(stack[n].heap) :
            e.Name \in PluralChoiceChildren(Tokens(stack[n].FilePath)) => e.Plural
    /\ lastRet.opened =>
        \A e \in ElementEntries(lastRet.ProtoTree) :
            e.Name \in PluralChoiceChildren(Tokens(lastRet.FilePath)) => e.Plural

\* C16 witness: the returned tree holds the typed child of the unbounded
\* choice, the untyped child of the choice nested in it and the child of the
\* choice of maxOccurs 2, all plural, and the child of the choice of maxOccurs 1
C16_Witness ==
    /\ status = "ok"
    /\ cfg.declsA = <<"choicePl", "choiceTwo">>
    /\ PluralChoiceChildren(Tokens(lastRet.FilePath)) = {N("c1"), N("c2"), N("c3")}
    /\ \A name \in {N("c1"), N("c2"), N("c3")} :
        \E e \in ElementEntries(lastRet.ProtoTree) : e.Name = name /\ e.Plural
    /\ \E e \in ElementEntries(lastRet.ProtoTree) : e.Name = N("c4") /\ ~e.Plural

\* the value attributes of the enumeration tags inside the declaration that
\* token i opens, in document order
RECURSIVE EnumValuesFrom(_, _, _)
EnumValuesFrom(toks, i, k) ==
    IF k > Len(toks) \/ Depth(toks, k) <= Depth(toks, i) THEN << >>
    ELSE (IF toks[k].t = "start" /\ toks[k].name = "enumeration"
                /\ HasAttr(toks[k], "value")
          THEN <<AttrValue(toks[k], "value")>> ELSE << >>)
         \o EnumValuesFrom(toks, i, k + 1)

DeclaredEnum(toks, i) == EnumValuesFrom(toks, i, i + 1)

\* C17: in the tree a parse returns, each named top-level simpleType of the
\* document has a SimpleType node, and every SimpleType node of its name has
\* as Enum the values of its enumeration children, in document order.
C17_EnumAsDeclared ==
    (status = "ok" /\ cfg \in TypeRuns) =>
        LET toks == Tokens(lastRet.FilePath) IN
        \A i \in 1..Len(toks) :
            TopDeclared(toks, i, {"simpleType"}) =>
                LET nodes == NodesNamed(lastRet.ProtoTree, "SimpleType",
                                        AttrValue(toks[i], "name"))
                IN  /\ nodes # {}
                    /\ \A n \in nodes : n.Enum = DeclaredEnum(toks, i)

\* C18: a second Parse of the same file, by a new parser with new maps,
\* returns the error and the ProtoTree the first one returned.
C18_SecondParseEqual ==
    (TopReturned /\ firstRun.set) =>
        /\ lastRet.err = firstRun.err
        /\ lastRet.ProtoTree = firstRun.ProtoTree

\* what the default handlers read and write of a parser: the stacks, the
\* flags, the ProtoTree and the nodes
Walker(f) ==
    [ProtoTree |-> f.ProtoTree, heap |-> f.heap,
     InElement |-> f.InElement, CurrentEle |-> f.CurrentEle,
     InGroup |-> f.InGroup, InUnion |-> f.InUnion,
     InAttributeGroup |-> f.InAttributeGroup,
     InPluralSequence |-> f.InPluralSequence,
     SimpleType |-> f.SimpleType, ComplexType |-> f.ComplexType,
     Element |-> f.Element, Attribute |-> f.Attribute, Group |-> f.Group,
     AttributeGroup |-> f.AttributeGroup, Choice |-> f.Choice]

\* the top-level parser is about to read a token its hook picks
AtHookedToken ==
    /\ Len(stack) = 1
    /\ stack[1].pc = "loop"
    /\ stack[1].pos <= Len(Tokens(stack[1].FilePath))
    /\ ~HookResult(cfg.hook, CurTok(stack[1])).next

\* the tokens of the top-level file the hook picks
HookedTokens ==
    LET toks == Tokens(cfg.top) IN
    {i \in 1..Len(toks) : ~HookResult(cfg.hook, toks[i]).next}

\* the hook returns an error for some token of the file
HookFails == cfg \in HookRuns /\ cfg.hook.err /\ HookedTokens # {}

\* the top-level Parse returned the hook's error at the first token the hook
\* picks, and nothing was generated
StoppedByHook ==
    /\ status = "error"
    /\ lastRet.err = HookErr
    /\ lastRet.pos \in HookedTokens
    /\ \A i \in HookedTokens : lastRet.pos <= i
    /\ ~lastRet.generated
    /\ emitted = << >>

\* C19: when the hook returns an error for a token, the default handler of
\* that token is not run (the walker's state is as it was), Parse returns at
\* that token with the hook's error, and no code is generated.
C19_HookErrorAborts ==
    [][HookFails =>
        /\ AtHookedToken =>
            /\ Len(stack') = 1
            /\ Walker(stack'[1]) = Walker(stack[1])
            /\ stack'[1].pos = stack[1].pos
            /\ stack'[1].pc = "ret"
        /\ status' \in {"idle", "running", "error"}
        /\ status' = "error" => StoppedByHook']_vars

\* C19 witness: the hook failed at the start tag of the element w, after the
\* simpleType T was handled and before w's handlers were
C19_Witness ==
    /\ cfg \in HookRuns
    /\ cfg.hook = [on |-> "start", tag |-> "element", err |-> TRUE]
    /\ cfg.declsA = <<"localT", "elemAnon">>
    /\ StoppedByHook
    /\ Len(lastRet.ProtoTree) = 1
    /\ lastRet.stacks.Element = << >>
    /\ firstRun.set

\* the hook picks tokens and returns next = false without an error
HookVetoes == cfg \in HookRuns /\ cfg.hook.on # "none" /\ ~cfg.hook.err

\* C20: when the hook returns next = false and no error for a token, the
\* walker's stacks, flags and ProtoTree are left as they were, the parser
\* goes on with the next token, and the parse ends without an error.
C20_VetoSkipsHandler ==
    [][HookVetoes =>
        /\ AtHookedToken =>
            /\ Len(stack') = 1
            /\ Walker(stack'[1]) = Walker(stack[1])
            /\ stack'[1].pos = stack[1].pos + 1
            /\ stack'[1].pc = "loop"
        /\ status' \notin {"error", "panic"}]_vars

(***************************************************************************)
(* The Stack against a last-in-first-out sequence                          *)
(***************************************************************************)
\* the values a chain of nodes holds, oldest first
RECURSIVE Chain(_, _, _)
Chain(nodes, top, length) ==
    IF length = 0 \/ top = 0 THEN << >>
    ELSE Append(Chain(nodes, nodes[top].prev, length - 1), nodes[top].value)

\* C21: after every sequence of Push, Pop, Peek and Len calls, the value
\* the last call returned is the one a last-in-first-out sequence gives
\* (nil from a Pop or Peek of an empty stack), and both Stacks hold, in
\* order and in number, exactly the values pushed and not yet popped.
C21_StackIsLIFO ==
    /\ lifo.got = <<lifo.want, lifo.want>>
    /\ lifo.list = lifo.ref
    /\ StackLen(lifo.list) = Len(lifo.ref)
    /\ LinkedLen(lifo.linked) = Len(lifo.ref)
    /\ Chain(lifo.linked.nodes, lifo.linked.top, Len(lifo.ref)) = lifo.ref
    /\ (lifo.ref = << >>) = (lifo.linked.top = 0)

\* a Pop of a stack emptied by earlier Pops, after a Pop that returned the
\* older of two pushed values
C21_Witness ==
    /\ lifo.op = "Pop"
    /\ lifo.ref = << >>
    /\ lifo.want = 0
    /\ Len(lifo.linked.nodes) >= 2
    /\ lifo.linked.nodes[1].value # lifo.linked.nodes[2].value

(***************************************************************************)
(* The handlers of simpleType                                              *)
(***************************************************************************)
\* the running parser is about to hand a tag to its default handler
AtTag(t, name) ==
    /\ stack # << >>
    /\ Top.pc = "loop"
    /\ Top.pos <= Len(Tokens(Top.FilePath))
    /\ CurTok(Top).t = t
    /\ CurTok(Top).name = name
    /\ Len(stack) = 1 => HookResult(cfg.hook, CurTok(Top)).next

\* the stacks of a parser
Stacks(f) ==
    [SimpleType |-> f.SimpleType, ComplexType |-> f.ComplexType,
     Element |-> f.Element, Attribute |-> f.Attribute, Group |-> f.Group,
     AttributeGroup |-> f.AttributeGroup]

\* what the end tag of a simpleType does to the parser b, giving a
EndSimpleTypeCase(b, a) ==
    IF b.Attribute # << >> /\ b.SimpleType # << >>
    THEN /\ a.SimpleType = PopRest(b.SimpleType)
         /\ Deref(a, Peek(b.Attribute)).Type
                = Deref(b, Peek(b.SimpleType)).Base
         /\ a.ProtoTree = b.ProtoTree
         /\ Stacks(a) = [Stacks(b) EXCEPT !.SimpleType = a.SimpleType]
    ELSE IF b.CurrentEle = "simpleType" /\ Len(b.ComplexType) = 1
    THEN /\ a.ComplexType = << >>
         /\ a.ProtoTree = Append(b.ProtoTree, b.ComplexType[1])
         /\ Stacks(a) = [Stacks(b) EXCEPT !.ComplexType = << >>]
    ELSE IF b.CurrentEle = "simpleType" /\ ~b.InUnion
    THEN /\ b.SimpleType # << >>
         /\ a.SimpleType = PopRest(b.SimpleType)
         /\ a.ProtoTree = Append(b.ProtoTree, Peek(b.SimpleType))
         /\ Stacks(a) = [Stacks(b) EXCEPT !.SimpleType = a.SimpleType]
    ELSE /\ Stacks(a) = Stacks(b)
         /\ a.ProtoTree = b.ProtoTree

\* C22: the end tag of a simpleType does exactly one of: give the popped
\* SimpleType's Base to the open Attribute as its Type (an Attribute and a
\* SimpleType being open), appending nothing; else pop and append the one
\* open ComplexType (the marker being simpleType), not the SimpleType; else
\* pop and append the SimpleType (the marker being simpleType, outside a
\* union); else leave the stacks and the ProtoTree as they are.
C22_EndSimpleTypeCases ==
    [][AtTag("end", "simpleType") =>
        /\ Len(stack') = Len(stack)
        /\ EndSimpleTypeCase(Top, stack'[Len(stack)])]_vars

\* C23: the start tag of a simpleType pushes a new SimpleType that carries
\* the tag's name attribute and nothing else, whether or not a SimpleType is
\* already open, sets the marker to simpleType, and leaves every SimpleType
\* opened before as it was.
C23_FreshSimpleType ==
    [][AtTag("start", "simpleType") =>
        LET b == Top
            a == stack'[Len(stack)]
            ele == CurTok(Top)
        IN  /\ Len(stack') = Len(stack)
            /\ Len(a.SimpleType) = Len(b.SimpleType) + 1
            /\ SubSeq(a.SimpleType, 1, Len(b.SimpleType)) = b.SimpleType
            /\ Peek(a.SimpleType) \notin 1..Len(b.heap)
            /\ Deref(a, Peek(a.SimpleType)) =
                    [NewSimpleType EXCEPT
                        !.Name = IF HasAttr(ele, "name")
                                 THEN AttrValue(ele, "name") ELSE EmptyStr]
            /\ a.CurrentEle = "simpleType"
            /\ \A i \in 1..Len(b.SimpleType) :
                    Deref(a, b.SimpleType[i]) = Deref(b, b.SimpleType[i])]_vars

\* the number of tags named name that the first n tokens open and do not
\* close
OpenTags(toks, n, name) ==
    Cardinality({j \in 1..n : toks[j].t = "start" /\ toks[j].name = name})
    - Cardinality({j \in 1..n : toks[j].t = "end" /\ toks[j].name = name})

\* C24: between two tokens, InUnion is true exactly when the tokens handled
\* so far leave a union open.
C24_InUnionTracksNesting ==
    \A d \in 1..Len(stack) :
        (stack[d].pc = "loop" /\ ~HookVetoes) =>
            (stack[d].InUnion
                <=> OpenTags(Tokens(stack[d].FilePath), stack[d].pos - 1,
                             "union") > 0)

(***************************************************************************)
(* The handlers of element                                                 *)
(***************************************************************************)
\* the entry e has the Name and the Type of an entry of elements
Duplicates(e, elements) ==
    \E i \in 1..Len(elements) :
        elements[i].Name = e.Name /\ elements[i].Type = e.Type

\* C25: an element whose Name and resolved Type an entry of the open
\* ComplexType's Elements already has is not appended to that list (the
\* entry's Plural takes the OR instead).
C25_SameElementMerged ==
    [][\A d \in 1..Len(stack) : \A r \in 1..Len(stack[d].heap) :
        (/\ d <= Len(stack')
         /\ r <= Len(stack'[d].heap)
         /\ stack[d].heap[r].kind = "ComplexType"
         /\ stack'[d].heap[r].kind = "ComplexType"
         /\ Len(stack'[d].heap[r].Elements) > Len(stack[d].heap[r].Elements))
        => LET new == stack'[d].heap[r].Elements IN
           ~Duplicates(new[Len(new)], stack[d].heap[r].Elements)]_vars

\* the running parser handled the tag it was at and is at the next token
Handled(b, a) ==
    /\ a.FilePath = b.FilePath
    /\ a.pc = "loop"
    /\ a.pos = b.pos + 1

\* C26: an element start tag puts the new Element in one place: in the open
\* ComplexType's Elements (the Element stack keeping its length), else in
\* the open Group's Elements (likewise), else on the Element stack, which
\* grows by one.
C26_ElementOneDestination ==
    [][(/\ AtTag("start", "element")
        /\ Len(stack') = Len(stack)
        /\ Handled(Top, stack'[Len(stack)]))
        => LET b == Top
               a == stack'[Len(stack)]
           IN  IF b.ComplexType # << >> \/ b.InGroup > 0
               THEN a.Element = b.Element
               ELSE /\ Len(a.Element) = Len(b.Element) + 1
                    /\ SubSeq(a.Element, 1, Len(b.Element)) = b.Element]_vars

(***************************************************************************)
(* Character data                                                          *)
(***************************************************************************)
\* the running parser is about to hand character data that is not white
\* space to OnCharData
AtCharData ==
    /\ stack # << >>
    /\ Top.pc = "loop"
    /\ Top.pos <= Len(Tokens(Top.FilePath))
    /\ CurTok(Top).t = "chardata"
    /\ CurTok(Top).text # ""
    /\ Len(stack) = 1 => HookResult(cfg.hook, CurTok(Top)).next

\* the construct of the parser b that is innermost open: the Attribute,
\* else the Element, else the one the marker selects (0: none)
DocTarget(b) ==
    IF b.Attribute # << >> THEN Peek(b.Attribute)
    ELSE IF b.Element # << >> THEN Peek(b.Element)
    ELSE IF b.CurrentEle = "simpleType" THEN Peek(b.SimpleType)
    ELSE IF b.CurrentEle = "complexType" THEN Peek(b.ComplexType)
    ELSE 0

\* C27: character data that is not white space becomes the Doc of the open
\* Attribute, else of the open Element, else of the SimpleType or
\* ComplexType the marker selects, and no other node changes.
C27_DocGoesToInnermost ==
    [][AtCharData =>
        LET b == Top
            a == stack'[Len(stack)]
        IN  /\ Len(stack') = Len(stack)
            /\ Len(a.heap) = Len(b.heap)
            /\ \A r \in 1..Len(b.heap) :
                a.heap[r] = IF r = DocTarget(b)
                            THEN [b.heap[r] EXCEPT !.Doc = CurTok(b).text]
                            ELSE b.heap[r]]_vars

(***************************************************************************)
(* The base of a restriction and of an extension                           *)
(***************************************************************************)
\* the value of the base attribute of a start tag
BaseOf(ele) == AttrValue(ele, "base")

\* the running parser is about to handle a restriction or extension start
\* tag that names a builtin base
AtBuiltinBase(name) ==
    /\ AtTag("start", name)
    /\ HasAttr(CurTok(Top), "base")
    /\ IsBuiltin(BaseOf(CurTok(Top)))

\* what GetValueType returns for a builtin (C1)
BuiltinType(b) == BuildInTypes[trimNSPrefix(b)][supportLang(cfg.lang) + 1]

\* C28: a restriction start tag with a builtin base b, read while a
\* SimpleType is open, leaves that SimpleType's Base at the type b resolves
\* to; an extension start tag does the same to the open ComplexType.
C28_BaseResolvedOnce ==
    [][/\ (/\ AtBuiltinBase("restriction")
           /\ Top.SimpleType # << >>
           /\ Len(stack') = Len(stack)
           /\ Handled(Top, stack'[Len(stack)]))
          => Deref(stack'[Len(stack)], Peek(Top.SimpleType)).Base
                = BuiltinType(BaseOf(CurTok(Top)))
       /\ (/\ AtBuiltinBase("extension")
           /\ Top.ComplexType # << >>
           /\ Len(stack') = Len(stack)
           /\ Handled(Top, stack'[Len(stack)]))
          => Deref(stack'[Len(stack)], Peek(Top.ComplexType)).Base
                = BuiltinType(BaseOf(CurTok(Top)))]_vars

(***************************************************************************)
(* A damaged file                                                          *)
(***************************************************************************)
\* the tokenizer fails ahead of the end of the top-level document
TokenizerFails == TokenErr(cfg.top) = SyntaxError

\* C29: when the tokenizer fails ahead of the end of the document, Parse
\* returns an error and the code generator is not run on what was read.
C29_TokenizerErrorReturned ==
    (TokenizerFails /\ TopReturned) =>
        /\ lastRet.err # NoErr
        /\ ~lastRet.generated
        /\ emitted = << >>

(***************************************************************************)
(* Tags without a handler                                                  *)
(***************************************************************************)
\* the element kinds that have a handler for their start tag, for their
\* end tag
StartKinds ==
    {"schema", "import", "include", "simpleType", "complexType", "element",
     "attribute", "group", "attributeGroup", "restriction", "extension",
     "sequence", "choice", "union", "enumeration", "list"}
EndKinds ==
    {"simpleType", "complexType", "element", "attribute", "group",
     "attributeGroup", "restriction", "extension", "sequence", "choice",
     "union", "enumeration", "pattern", "maxLength"}

\* the running parser is about to read a tag of no handled kind
AtUnhandledTag ==
    /\ stack # << >>
    /\ Top.pc = "loop"
    /\ Top.pos <= Len(Tokens(Top.FilePath))
    /\ \/ CurTok(Top).t = "start" /\ CurTok(Top).name \notin StartKinds
       \/ CurTok(Top).t = "end" /\ CurTok(Top).name \notin EndKinds
    /\ Len(stack) = 1 => HookResult(cfg.hook, CurTok(Top)).next

\* C30: a start or end tag of no handled kind changes nothing of the walker
\* but the name of the open element, appends nothing to the ProtoTree, and
\* the parser goes on with the next token without an error or a panic.
C30_UnhandledTagIgnored ==
    [][AtUnhandledTag =>
        /\ Len(stack') = Len(stack)
        /\ Handled(Top, stack'[Len(stack)])
        /\ Walker(stack'[Len(stack)]) =
                [Walker(Top) EXCEPT
                    !.InElement = IF CurTok(Top).t = "start"
                                  THEN CurTok(Top).name ELSE @]
        /\ stack'[Len(stack)].err = NoErr]_vars

(***************************************************************************)
(* Imports and includes                                                    *)
(***************************************************************************)
\* the running parser is about to handle an import or include start tag
\* whose schemaLocation is an absolute URL
AtRemoteLink ==
    /\ \/ AtTag("start", "import")
       \/ AtTag("start", "include")
    /\ HasAttr(CurTok(Top), "schemaLocation")
    /\ isValidURL(AttrValue(CurTok(Top), "schemaLocation"))

\* C31: an import or include start tag whose schemaLocation is an absolute
\* URL adds nothing to the namespace-to-location map and nothing to the
\* include set, and raises no error.
C31_RemoteLinkSkipped ==
    [][AtRemoteLink =>
        /\ NSSchemaLocationMap' = NSSchemaLocationMap
        /\ IncludeMap' = IncludeMap
        /\ Len(stack') = Len(stack)
        /\ Handled(Top, stack'[Len(stack)])
        /\ stack'[Len(stack)].err = NoErr]_vars

(***************************************************************************)
(* The walker's state at the end of a document                             *)
(***************************************************************************)
\* the parser f has handled the last token of a complete document, and its
\* default handlers have seen every token
AtEndOfDocument(f) ==
    /\ f.pc = "loop"
    /\ f.pos > Len(Tokens(f.FilePath))
    /\ TokenErr(f.FilePath) = EOF
    /\ cfg.hook = NoHook

\* C32: when the last end tag of a well-formed document has been handled
\* without an error, every stack of open constructs and the stack of plural
\* sequences are empty, InGroup is 0, and InUnion and InAttributeGroup are
\* false.
C32_StacksEmptyAtEnd ==
    \A d \in 1..Len(stack) :
        AtEndOfDocument(stack[d]) =>
            /\ Stacks(stack[d]) = Stacks(NewFrame(<< >>, FALSE))
            /\ stack[d].Choice = << >>
            /\ stack[d].InPluralSequence = << >>
            /\ stack[d].InGroup = 0
            /\ ~stack[d].InUnion
            /\ ~stack[d].InAttributeGroup

(***************************************************************************)
(* The entries of ProtoTree                                                *)
(***************************************************************************)
\* the kinds of node a handler creates
NodeKinds ==
    {"SimpleType", "ComplexType", "Element", "Attribute", "Group",
     "AttributeGroup"}

\* C33: every entry of a parser's ProtoTree is a node of one of the six
\* kinds, never nil.
C33_NoNilInProtoTree ==
    \A d \in 1..Len(stack) : \A i \in 1..Len(stack[d].ProtoTree) :
        /\ stack[d].ProtoTree[i] # 0
        /\ Deref(stack[d], stack[d].ProtoTree[i]).kind \in NodeKinds

(***************************************************************************)
(* Runtime faults                                                          *)
(***************************************************************************)
\* the top-level file is complete and every token reaches its handler
WellFormedRun == cfg.hook = NoHook /\ TokenErr(cfg.top) = EOF

\* C34: no handler panics on the tokens of a well-formed document, a
\* complexType start tag read while the Element stack is empty included.
C34_NoHandlerFault ==
    WellFormedRun =>
        /\ status # "panic"
        /\ \A d \in 1..Len(stack) : stack[d].pc # "panic"

(***************************************************************************)
(* Finalized nodes                                                         *)
(***************************************************************************)
\* frame a is frame b of the same parse one step later
SameParse(b, a) ==
    /\ a.FilePath = b.FilePath
    /\ Len(a.ProtoTree) >= Len(b.ProtoTree)
    /\ SubSeq(a.ProtoTree, 1, Len(b.ProtoTree)) = b.ProtoTree

\* C35: a node already appended to ProtoTree is not changed by any later
\* handler event of the same parse.
C35_FinalizedNodesFrozen ==
    [][\A d \in 1..Len(stack) :
          (d <= Len(stack') /\ SameParse(stack[d], stack'[d])) =>
              \A i \in 1..Len(stack[d].ProtoTree) :
                  Deref(stack'[d], stack[d].ProtoTree[i])
                      = Deref(stack[d], stack[d].ProtoTree[i])]_vars

(***************************************************************************)
(* Plurality                                                               *)
(***************************************************************************)
\* the tag's own maxOccurs is "unbounded" or greater than 1
PluralOccurs(tok) ==
    \E a \in 1..Len(tok.attrs) :
        /\ tok.attrs[a].local = "maxOccurs"
        /\ \/ tok.attrs[a].value = "unbounded"
           \/ /\ Atoi(tok.attrs[a].value).err = NoErr
              /\ Atoi(tok.attrs[a].value).n > 1

\* token j opens a sequence or choice that is plural, or that lies directly
\* in a chain of sequences and choices one of which is: the chain ends at the
\* complexType, group or element that encloses it
RECURSIVE PluralCompositor(_, _)
PluralCompositor(toks, j) ==
    /\ j > 0
    /\ toks[j].t = "start"
    /\ toks[j].name \in {"sequence", "choice"}
    /\ \/ PluralOccurs(toks[j])
       \/ PluralCompositor(toks, Parent(toks, j))

\* the names of the elements the document allows to be plural
MayBePlural(toks) ==
    {AttrValue(toks[i], "name") : i \in {k \in 1..Len(toks) :
        /\ toks[k].t = "start"
        /\ toks[k].name = "element"
        /\ HasAttr(toks[k], "name")
        /\ \/ PluralOccurs(toks[k])
           \/ PluralCompositor(toks, Parent(toks, k))}}

\* the Element nodes of a heap
ElementNodes(nodes) ==
    {nodes[r] : r \in {x \in 1..Len(nodes) : nodes[x].kind = "Element"}}

\* C36: an element is plural only by its own maxOccurs or by a plural
\* sequence or choice that encloses it inside its own complexType or group;
\* a plural sequence around the element whose inline complexType holds it
\* does not make it plural.
C36_PluralOnlyFromOwnScope ==
    \A d \in 1..Len(stack) :
        \A e \in ElementEntries(stack[d].heap) \cup ElementNodes(stack[d].heap) :
            e.Plural => e.Name \in MayBePlural(Tokens(stack[d].FilePath))

(***************************************************************************)
(* Prefix bindings across nested parses                                    *)
(***************************************************************************)
\* the <<prefix, URI>> pairs a schema root declares
Bindings(tok) ==
    {<<tok.attrs[i].local, tok.attrs[i].value>> :
        i \in {k \in 1..Len(tok.attrs) : tok.attrs[k].space = "xmlns"}}

\* frame f is running, past its schema root, with no nested parse open
PastRoot(d) ==
    /\ d = Len(stack)
    /\ stack[d].pc = "loop"
    /\ stack[d].pos > 1
    /\ Len(Tokens(stack[d].FilePath)) >= 1
    /\ Tokens(stack[d].FilePath)[1].name = "schema"

\* C37: once the nested parses a type resolution started have returned, every
\* prefix the parent's schema root declared still maps to the URI the parent
\* declared.
C37_ParentBindingsKept ==
    \A d \in 1..Len(stack) :
        PastRoot(d) =>
            \A b \in Bindings(Tokens(stack[d].FilePath)[1]) :
                MapGet(LocalNameNSMap, b[1], "") = b[2]

(***************************************************************************)
(* Attribute order on import                                               *)
(***************************************************************************)
\* the running parser is at an import start tag that carries a namespace not
\* yet registered and a schemaLocation that is no URL
AtImportOfNew ==
    /\ AtTag("start", "import")
    /\ HasAttr(CurTok(Top), "namespace")
    /\ HasAttr(CurTok(Top), "schemaLocation")
    /\ ~isValidURL(AttrValue(CurTok(Top), "schemaLocation"))
    /\ AttrValue(CurTok(Top), "namespace") \notin DOMAIN NSSchemaLocationMap

\* C38: such an import tag records namespace -> schemaLocation, and nothing
\* else, whichever of the two attributes comes first.
C38_ImportOrderIrrelevant ==
    [][AtImportOfNew =>
        NSSchemaLocationMap' =
            MapPut(NSSchemaLocationMap, AttrValue(CurTok(Top), "namespace"),
                   AttrValue(CurTok(Top), "schemaLocation"))]_vars

(***************************************************************************)
(* Independent runs                                                        *)
(***************************************************************************)
\* the declarations GenGo produces for a ProtoTree when no other generator
\* is at work: from entry i on, with StructAST ast and the counts cnt
RECURSIVE GenGoAlone(_, _, _, _)
GenGoAlone(tree, i, ast, cnt) ==
    IF i > Len(tree) THEN << >>
    ELSE IF tree[i] \in ast THEN GenGoAlone(tree, i + 1, ast, cnt)
    ELSE LET fieldName == MakeFirstUpperCase(tree[i])
             n == MapGet(cnt, fieldName, 0) + 1
         IN  <<Numbered(fieldName, n)>>
             \o GenGoAlone(tree, i + 1, ast \cup {tree[i]},
                           MapPut(cnt, fieldName, n))

\* C39: two generators of independent Parse runs whose steps interleave end
\* without a fault and with the declarations each produces when it runs
\* alone.
C39_RunsIndependent ==
    \A r \in {1, 2} :
        /\ gens.run[r].pc # "fatal"
        /\ gens.run[r].pc = "done" =>
            gens.run[r].Field = GenGoAlone(gens.run[r].ProtoTree, 1, {}, << >>)

====
